---- MODULE Spec2Model ----
(***************************************************************************)
(* Model of the onboarding bot: the user store (db.js), the CooldownMap    *)
(* rate limiter, the admin cache, the intro validator and the four         *)
(* handlers (admin commands, welcome, intro, gatekeeper) in their          *)
(* registration order.                                                     *)
(***************************************************************************)
EXTENDS Integers, Sequences, FiniteSets, TLC

(* ---------------- bounds of the model ---------------- *)
MaxUsers == 2
MaxMsgId == 2
FlowTasks == 1
FlowAttempts == 1
IntroAttempts == 6
IntroTicks == 2
GateTasks == 2
GateTicks == 3
MapCalls == 4
MapTicks == 2
AdminCalls == 3
AdminTicks == 1
SettingCalls == 3

(* ---------------- program constants (config.js, adminCache.js) -------- *)
WELCOME_COOLDOWN_MS == 5000
MAX_NEW_MEMBERS_PER_EVENT == 10
INTRO_RATE_LIMIT_WINDOW_MS == 60000
INTRO_RATE_LIMIT_MAX == 5
INTRO_KEYWORD_BYPASS_LENGTH == 150
REMINDER_COOLDOWN_MS == 30000
INTRO_MIN_LENGTH == 50
INTRO_MAX_LENGTH == 4000
ADMIN_CACHE_MS == 300000
ADMIN_CACHE_MAX == 10000
TEST_WINDOW_MS == 1000
TEST_MAX_SIZE == 2

INTRO_KEYWORDS ==
  << <<"w","h","o"," ","a","r","e"," ","y","o","u">>,
     <<"w","h","a","t"," ","d","o"," ","y","o","u"," ","d","o">>,
     <<"w","h","e","r","e"," ","a","r","e"," ","y","o","u"," ","b","a","s","e","d">>,
     <<"f","u","n"," ","f","a","c","t">>,
     <<"c","o","n","t","r","i","b","u","t","e">> >>

(* chat ids used by the repository's tests *)
MAIN_GROUP == -100111
INTRO_CHANNEL == -100999
OTHER_CHAT == -100222

UserIds == 1..MaxUsers
MsgIds == 1..MaxMsgId

(* SQL NULL / JS null for an optional value: the empty set; a present     *)
(* value v is the singleton {v}.                                          *)
Null == {}
Some(v) == {v}
IdOf(opt) == CHOOSE v \in opt : TRUE

(* ---------------- text and the intro validator ---------------- *)
UpperChars == <<"A","B","C","D","E","F","G","H","I","J","K","L","M","N","O","P","Q","R","S","T","U","V","W","X","Y","Z">>
LowerChars == <<"a","b","c","d","e","f","g","h","i","j","k","l","m","n","o","p","q","r","s","t","u","v","w","x","y","z">>

toLowerChar(c) ==
  IF \E i \in 1..26 : UpperChars[i] = c
    THEN LowerChars[CHOOSE i \in 1..26 : UpperChars[i] = c]
    ELSE c

toUpperChar(c) ==
  IF \E i \in 1..26 : LowerChars[i] = c
    THEN UpperChars[CHOOSE i \in 1..26 : LowerChars[i] = c]
    ELSE c

toLowerCase(s) == [i \in 1..Len(s) |-> toLowerChar(s[i])]

toUpperCase(s) == [i \in 1..Len(s) |-> toUpperChar(s[i])]

includes(s, k) ==
  \E i \in 1..(Len(s) - Len(k) + 1) : SubSeq(s, i, i + Len(k) - 1) = k

isValidIntroCaseSensitive(text) ==
  IF Len(text) < INTRO_MIN_LENGTH THEN FALSE
  ELSE IF Len(text) > INTRO_MAX_LENGTH THEN FALSE
  ELSE LET matches == SelectSeq(INTRO_KEYWORDS, LAMBDA kw : includes(text, kw))
       IN  Len(matches) >= 2 \/ Len(text) >= INTRO_KEYWORD_BYPASS_LENGTH

isValidIntro(text) ==
  IF Len(text) < INTRO_MIN_LENGTH THEN FALSE
  ELSE IF Len(text) > INTRO_MAX_LENGTH THEN FALSE
  ELSE LET lower == toLowerCase(text)
           matches == SelectSeq(INTRO_KEYWORDS,
                                LAMBDA kw : includes(lower, toLowerCase(kw)))
       IN  Len(matches) >= 2 \/ Len(text) >= INTRO_KEYWORD_BYPASS_LENGTH

(* ---------------- JS Map: entries kept in insertion order ------------- *)
MapHas(m, k) == \E i \in 1..Len(m) : m[i].key = k

MapGet(m, k) == m[CHOOSE i \in 1..Len(m) : m[i].key = k].val

MapSet(m, k, v) ==
  IF MapHas(m, k)
    THEN [i \in 1..Len(m) |-> IF m[i].key = k THEN [key |-> k, val |-> v] ELSE m[i]]
    ELSE Append(m, [key |-> k, val |-> v])

MapDelete(m, k) == SelectSeq(m, LAMBDA e : e.key # k)

(* ---------------- CooldownMap ---------------- *)
(* A timestamp entry is [ts |-> t]; a counter entry is                     *)
(* [count |-> c, firstAttempt |-> t] (typeof val === 'object').            *)
IsObject(val) == "count" \in DOMAIN val

CooldownMap(windowMs, maxSize) ==
  [_map |-> << >>, _windowMs |-> windowMs, _maxSize |-> maxSize]

isLimitedInverted(cm, key, t) ==
  /\ MapHas(cm._map, key)
  /\ ~IsObject(MapGet(cm._map, key))
  /\ t - MapGet(cm._map, key).ts > cm._windowMs

isLimitedInclusive(cm, key, t) ==
  /\ MapHas(cm._map, key)
  /\ ~IsObject(MapGet(cm._map, key))
  /\ t - MapGet(cm._map, key).ts <= cm._windowMs

isLimited(cm, key, t) ==
  /\ MapHas(cm._map, key)
  /\ ~IsObject(MapGet(cm._map, key))
  /\ t - MapGet(cm._map, key).ts < cm._windowMs

touchEvictNewest(cm, key, t) ==
  LET m1 == IF cm._maxSize # 0 /\ Len(cm._map) >= cm._maxSize
              THEN MapDelete(cm._map, cm._map[Len(cm._map)].key)
              ELSE cm._map
  IN  [cm EXCEPT !._map = MapSet(m1, key, [ts |-> t])]

touch(cm, key, t) ==
  LET m1 == IF cm._maxSize # 0 /\ Len(cm._map) >= cm._maxSize
              THEN MapDelete(cm._map, cm._map[1].key)
              ELSE cm._map
  IN  [cm EXCEPT !._map = MapSet(m1, key, [ts |-> t])]

incrementFresh(cm, key, t) ==
  \/ ~MapHas(cm._map, key)
  \/ ~IsObject(MapGet(cm._map, key))
  \/ t - MapGet(cm._map, key).firstAttempt > cm._windowMs

incrementMapSliding(cm, key, t) ==
  IF incrementFresh(cm, key, t)
    THEN [cm EXCEPT !._map = MapSet(cm._map, key, [count |-> 1, firstAttempt |-> t])]
    ELSE LET e == MapGet(cm._map, key)
         IN  [cm EXCEPT !._map = MapSet(cm._map, key,
                                        [count |-> e.count + 1, firstAttempt |-> t])]

incrementMap(cm, key, t) ==
  IF incrementFresh(cm, key, t)
    THEN [cm EXCEPT !._map = MapSet(cm._map, key, [count |-> 1, firstAttempt |-> t])]
    ELSE LET e == MapGet(cm._map, key)
         IN  [cm EXCEPT !._map = MapSet(cm._map, key, [e EXCEPT !.count = e.count + 1])]

incrementExceededOffByOne(cm, key, max, t) ==
  IF incrementFresh(cm, key, t) THEN FALSE
  ELSE MapGet(cm._map, key).count + 1 >= max

incrementExceeded(cm, key, max, t) ==
  IF incrementFresh(cm, key, t) THEN FALSE
  ELSE MapGet(cm._map, key).count + 1 > max

_purgeTimestamps(cm, t) ==
  [cm EXCEPT !._map = SelectSeq(cm._map,
                                LAMBDA e : IsObject(e.val) \/ ~(t - e.val.ts > cm._windowMs))]

_purgeAtWindow(cm, t) ==
  LET anchor(val) == IF IsObject(val) THEN val.firstAttempt ELSE val.ts
  IN  [cm EXCEPT !._map = SelectSeq(cm._map, LAMBDA e : ~(t - anchor(e.val) >= cm._windowMs))]

_purge(cm, t) ==
  LET anchor(val) == IF IsObject(val) THEN val.firstAttempt ELSE val.ts
  IN  [cm EXCEPT !._map = SelectSeq(cm._map, LAMBDA e : ~(t - anchor(e.val) > cm._windowMs))]

(* ---------------- adminCache ---------------- *)
IsInteger(x) == x \in Int

(* the template literal `${chatId}:${userId}` *)
CacheKey(chatId, userId) == ToString(chatId) \o ":" \o ToString(userId)

adminCacheHitInclusive(cache, chatId, userId, t) ==
  /\ MapHas(cache, CacheKey(chatId, userId))
  /\ t <= MapGet(cache, CacheKey(chatId, userId)).expires

adminCacheHit(cache, chatId, userId, t) ==
  /\ MapHas(cache, CacheKey(chatId, userId))
  /\ t < MapGet(cache, CacheKey(chatId, userId)).expires

adminCached(cache, chatId, userId) == MapGet(cache, CacheKey(chatId, userId)).isAdmin

StatusIsAdmin(status) == status = "creator" \/ status = "administrator"

adminStore(cache, chatId, userId, status, t) ==
  LET c1 == IF Len(cache) >= ADMIN_CACHE_MAX THEN MapDelete(cache, cache[1].key) ELSE cache
  IN  MapSet(c1, CacheKey(chatId, userId),
             [isAdmin |-> StatusIsAdmin(status), expires |-> t + ADMIN_CACHE_MS])

adminPurge(cache, t) == SelectSeq(cache, LAMBDA e : ~(t >= e.val.expires))

(* ---------------- db.js: the users table ---------------- *)
(* The table is a function from the ids that have a row to the row.        *)
HasUser(db, userId) == userId \in DOMAIN db

upsertUserReplace(db, userId, username) ==
  [u \in DOMAIN db \cup {userId} |->
     IF u = userId
       THEN [username |-> username, introduced |-> FALSE,
             introduced_at |-> Null, intro_msg_id |-> Null]
       ELSE db[u]]

upsertUserIntroduced(db, userId, username) ==
  IF HasUser(db, userId)
    THEN [db EXCEPT ![userId].username = username]
    ELSE db @@ (userId :> [username |-> username, introduced |-> TRUE,
                           introduced_at |-> Null, intro_msg_id |-> Null])

upsertUser(db, userId, username) ==
  IF HasUser(db, userId)
    THEN [db EXCEPT ![userId].username = username]
    ELSE db @@ (userId :> [username |-> username, introduced |-> FALSE,
                           introduced_at |-> Null, intro_msg_id |-> Null])

markIntroducedAll(db, userId, msgId, t) ==
  [u \in DOMAIN db |-> [db[u] EXCEPT !.introduced = TRUE,
                                     !.introduced_at = Some(t),
                                     !.intro_msg_id = msgId]]

markIntroducedNoMsgId(db, userId, msgId, t) ==
  IF HasUser(db, userId)
    THEN [db EXCEPT ![userId].introduced = TRUE,
                    ![userId].introduced_at = Some(t)]
    ELSE db

markIntroducedKeepsMsgId(db, userId, msgId, t) ==
  IF HasUser(db, userId)
    THEN [db EXCEPT ![userId].introduced = TRUE,
                    ![userId].introduced_at = Some(t),
                    ![userId].intro_msg_id = IF msgId = Null THEN @ ELSE msgId]
    ELSE db

markIntroduced(db, userId, msgId, t) ==
  IF HasUser(db, userId)
    THEN [db EXCEPT ![userId].introduced = TRUE,
                    ![userId].introduced_at = Some(t),
                    ![userId].intro_msg_id = msgId]
    ELSE db

resetUserKeepStamp(db, userId) ==
  IF HasUser(db, userId)
    THEN [db EXCEPT ![userId].introduced = FALSE]
    ELSE db

resetUser(db, userId) ==
  IF HasUser(db, userId)
    THEN [db EXCEPT ![userId].introduced = FALSE,
                    ![userId].introduced_at = Null,
                    ![userId].intro_msg_id = Null]
    ELSE db

(* ---------------- sample inputs ---------------- *)
Filler(n) == [i \in 1..n |-> "x"]

(* "Hi!", a two-keyword intro of 50 characters, and 'x'.repeat(150) *)
SampleTexts ==
  << <<"H","i","!">>,
     INTRO_KEYWORDS[4] \o <<" ">> \o toUpperCase(INTRO_KEYWORDS[5]) \o Filler(31),
     Filler(150) >>

TextIds == 1..Len(SampleTexts)

Statuses == {"administrator", "member"}

(* ---------------- state ---------------- *)
VARIABLES
  now,                  \* Date.now()
  ticks,                \* number of clock advances so far
  users,                \* db.js users table
  settings,             \* db.js settings table
  mainGroupId,          \* config._mainGroupId
  introChannelId,       \* config._introChannelId
  mainGroupFromEnv,     \* config._mainGroupFromEnv
  introChannelFromEnv,  \* config._introChannelFromEnv
  _cache,               \* adminCache._cache
  reminderCooldowns,    \* gatekeeper.js CooldownMap
  introRateLimiter,     \* intro.js CooldownMap
  welcomeCooldowns,     \* welcome.js CooldownMap
  tasks,                \* handlers suspended at an await
  last,                 \* what the most recently finished handler run did
  reminderLog,          \* history: times of the last two reminders per user
  attempts,             \* history: intro-text attempts per user (time, ignored)
  probe,                \* a text handed to isValidIntro, and the verdict
  map,                  \* a CooldownMap of its own, as CooldownMap.test.js builds one
  call,                 \* the latest call of map or of adminCache.isAdmin, and its result
  trace                 \* history: what the calls so far did, per key

vars == <<now, ticks, users, settings, mainGroupId, introChannelId,
          mainGroupFromEnv, introChannelFromEnv, _cache, reminderCooldowns,
          introRateLimiter, welcomeCooldowns, tasks, last, reminderLog, attempts, probe,
          map, call, trace>>

configVars == <<settings, mainGroupId, introChannelId, mainGroupFromEnv, introChannelFromEnv>>
limiterVars == <<reminderCooldowns, introRateLimiter, welcomeCooldowns>>
historyVars == <<reminderLog, attempts>>

NoProbe == [kws |-> {}, upper |-> FALSE, len |-> 0, verdict |-> Null]

NoEvent ==
  [kind |-> "none", name |-> "none", chat |-> 0, chatType |-> "none",
   hasFrom |-> FALSE, from |-> 0, is_bot |-> FALSE, text |-> Null,
   message_id |-> 0, reply_to |-> Null, arg |-> Null]

Idle == [pc |-> "idle", ev |-> NoEvent, stage |-> 0, aChat |-> 0, aUser |-> 0]

NoCall ==
  [op |-> "none", key |-> 0, max |-> 0, at |-> 0, result |-> FALSE,
   invoked |-> FALSE, before |-> << >>, n |-> 0]

NoObs ==
  [handler |-> "none", ev |-> NoEvent, at |-> 0, introNext |-> FALSE,
   nextCalled |-> FALSE, admin |-> FALSE, hadRecord |-> FALSE,
   wasIntroduced |-> FALSE, deleted |-> FALSE, limited |-> FALSE,
   target |-> Null, applied |-> FALSE, replies |-> << >>]

InitCommon(nTasks) ==
  /\ now = 0
  /\ ticks = 0
  /\ users = << >>
  /\ _cache = << >>
  /\ reminderCooldowns = CooldownMap(REMINDER_COOLDOWN_MS, 0)
  /\ introRateLimiter = CooldownMap(INTRO_RATE_LIMIT_WINDOW_MS, 0)
  /\ welcomeCooldowns = CooldownMap(WELCOME_COOLDOWN_MS, 0)
  /\ tasks = [s \in 1..nTasks |-> Idle]
  /\ last = NoObs
  /\ reminderLog = [u \in UserIds |-> << >>]
  /\ attempts = [u \in UserIds |-> << >>]
  /\ probe = NoProbe
  /\ map = CooldownMap(TEST_WINDOW_MS, 0)
  /\ call = NoCall
  /\ trace = << >>

(* bot.js startup: the ids come from the environment, else from the saved settings *)
InitConfigured(mainEnv, introEnv) ==
  /\ mainGroupFromEnv = mainEnv
  /\ introChannelFromEnv = introEnv
  /\ mainGroupId = Some(MAIN_GROUP)
  /\ introChannelId = Some(INTRO_CHANNEL)
  /\ settings = [MAIN_GROUP_ID |-> IF mainEnv THEN Null ELSE Some(MAIN_GROUP),
                 INTRO_CHANNEL_ID |-> IF introEnv THEN Null ELSE Some(INTRO_CHANNEL)]

(* ---------------- time and the periodic purges ---------------- *)
Tick(d, maxTicks) ==
  /\ ticks < maxTicks
  /\ now' = now + d
  /\ ticks' = ticks + 1
  /\ UNCHANGED <<users, configVars, _cache, limiterVars, tasks, last, historyVars, probe, map, call, trace>>

PurgeReminder ==
  /\ reminderCooldowns' = _purge(reminderCooldowns, now)
  /\ reminderCooldowns' # reminderCooldowns
  /\ UNCHANGED <<now, ticks, users, configVars, _cache, introRateLimiter,
                 welcomeCooldowns, tasks, last, historyVars, probe, map, call, trace>>

PurgeIntro ==
  /\ introRateLimiter' = _purge(introRateLimiter, now)
  /\ introRateLimiter' # introRateLimiter
  /\ UNCHANGED <<now, ticks, users, configVars, _cache, reminderCooldowns,
                 welcomeCooldowns, tasks, last, historyVars, probe, map, call, trace>>

PurgeWelcome ==
  /\ welcomeCooldowns' = _purge(welcomeCooldowns, now)
  /\ welcomeCooldowns' # welcomeCooldowns
  /\ UNCHANGED <<now, ticks, users, configVars, _cache, reminderCooldowns,
                 introRateLimiter, tasks, last, historyVars, probe, map, call, trace>>

PurgeAdmin ==
  /\ _cache' = adminPurge(_cache, now)
  /\ _cache' # _cache
  /\ UNCHANGED <<now, ticks, users, configVars, limiterVars, tasks, last, historyVars, probe, map, call, trace>>

(* ---------------- suspension at adminCache.isAdmin ---------------- *)
(* A handler that awaits adminCache.isAdmin continues in the same turn of  *)
(* the event loop when the promise is already settled (validation failure, *)
(* cache hit); otherwise it is suspended until getChatMember settles, and  *)
(* other events are handled meanwhile.                                     *)
FreeSlots == {s \in DOMAIN tasks : tasks[s].pc = "idle"}

FirstFree == CHOOSE s \in FreeSlots : \A r \in FreeSlots : s <= r

isAdminSettled(cache, chatId, userId) ==
  \/ ~IsInteger(chatId)
  \/ ~IsInteger(userId)
  \/ adminCacheHit(cache, chatId, userId, now)

isAdminValue(cache, chatId, userId) ==
  /\ IsInteger(chatId)
  /\ IsInteger(userId)
  /\ adminCached(cache, chatId, userId)

(* s = 0: the handler runs in the turn that dispatched it and holds no slot *)
Done(s) == tasks' = IF s = 0 THEN tasks ELSE [tasks EXCEPT ![s] = Idle]

Suspend(s, ev, stage, chatId, userId) ==
  /\ s = 0 => FreeSlots # {}
  /\ tasks' = [tasks EXCEPT ![IF s = 0 THEN FirstFree ELSE s] =
                 [pc |-> "resolving", ev |-> ev, stage |-> stage,
                  aChat |-> chatId, aUser |-> userId]]

(* getChatMember settles: a status is cached and classified, a failure is  *)
(* not cached and counts as "not an admin"                                 *)
ResolvedCacheNegative(s, outcome) ==
  adminStore(_cache, tasks[s].aChat, tasks[s].aUser, outcome, now)

ResolvedCache(s, outcome) ==
  IF outcome = "error" THEN _cache
  ELSE adminStore(_cache, tasks[s].aChat, tasks[s].aUser, outcome, now)

ResolvedValueFailOpen(outcome) == outcome = "error" \/ StatusIsAdmin(outcome)

ResolvedValue(outcome) == outcome # "error" /\ StatusIsAdmin(outcome)

Outcomes == Statuses \cup {"error"}

(* ---------------- events ---------------- *)
UserName(u) == Some(u)

(* a text message in the intro channel *)
IntroTexts(senders, texts, ids) ==
  { [NoEvent EXCEPT !.kind = "message", !.chat = INTRO_CHANNEL, !.chatType = "supergroup",
                    !.hasFrom = TRUE, !.from = f, !.text = Some(i), !.message_id = m] :
      f \in senders, i \in texts, m \in ids }

(* a text or media message of a user or a bot *)
PlainMessages(chats, senders) ==
  { [NoEvent EXCEPT !.kind = "message", !.chat = c, !.chatType = "supergroup",
                    !.hasFrom = TRUE, !.from = f, !.is_bot = b, !.text = t,
                    !.message_id = 1] :
      c \in chats, f \in senders, b \in BOOLEAN, t \in {Null, Some(1)} }

(* posted "as channel" (from.id is the chat itself), or with no sender *)
ChannelMessages(chats) ==
  { [NoEvent EXCEPT !.kind = "message", !.chat = c, !.chatType = "channel",
                    !.hasFrom = h, !.from = IF h THEN c ELSE 0, !.text = Some(1),
                    !.message_id = 1] :
      c \in chats, h \in BOOLEAN }

TextOf(ev) == SampleTexts[CHOOSE i \in TextIds : ev.text = Some(i)]

(* ---------------- handlers/intro.js ---------------- *)
(* The handler after the chat and sender filters, for a text message:      *)
(* rate limiter, record creation, validation.                              *)
IntroTextReaccepts(ev, logging) ==
  LET userId == ev.from
      exceeded == incrementExceeded(introRateLimiter, userId, INTRO_RATE_LIMIT_MAX, now)
      had == HasUser(users, userId)
      db1 == IF had THEN users ELSE upsertUser(users, userId, UserName(ev.from))
      obs == [NoObs EXCEPT !.handler = "intro", !.ev = ev, !.at = now,
                           !.hadRecord = had,
                           !.wasIntroduced = had /\ users[userId].introduced,
                           !.limited = exceeded]
  IN  /\ introRateLimiter' = incrementMap(introRateLimiter, userId, now)
      /\ attempts' = IF logging
                       THEN [attempts EXCEPT ![userId] = Append(@, [at |-> now, ignored |-> exceeded])]
                       ELSE attempts
      /\ IF exceeded
           THEN /\ users' = users
                /\ last' = obs
         ELSE IF isValidIntro(TextOf(ev))
           THEN /\ users' = markIntroduced(db1, userId, Some(ev.message_id), now)
                /\ last' = [obs EXCEPT !.applied = TRUE, !.replies = <<"accepted">>]
         ELSE /\ users' = db1
              /\ last' = [obs EXCEPT !.replies = <<"nudge">>]

IntroText(ev, logging) ==
  LET userId == ev.from
      exceeded == incrementExceeded(introRateLimiter, userId, INTRO_RATE_LIMIT_MAX, now)
      had == HasUser(users, userId)
      db1 == IF had THEN users ELSE upsertUser(users, userId, UserName(ev.from))
      obs == [NoObs EXCEPT !.handler = "intro", !.ev = ev, !.at = now,
                           !.hadRecord = had,
                           !.wasIntroduced = had /\ users[userId].introduced,
                           !.limited = exceeded]
  IN  /\ introRateLimiter' = incrementMap(introRateLimiter, userId, now)
      /\ attempts' = IF logging
                       THEN [attempts EXCEPT ![userId] = Append(@, [at |-> now, ignored |-> exceeded])]
                       ELSE attempts
      /\ IF exceeded
           THEN /\ users' = users
                /\ last' = obs
         ELSE IF db1[userId].introduced
           THEN /\ users' = db1
                /\ last' = obs
         ELSE IF isValidIntro(TextOf(ev))
           THEN /\ users' = markIntroduced(db1, userId, Some(ev.message_id), now)
                /\ last' = [obs EXCEPT !.applied = TRUE, !.replies = <<"accepted">>]
         ELSE /\ users' = db1
              /\ last' = [obs EXCEPT !.replies = <<"nudge">>]

IntroMediaNudgesUntracked(ev) ==
  LET uid == ev.from
      nudge == ~(HasUser(users, uid) /\ users[uid].introduced)
  IN  /\ last' = [NoObs EXCEPT !.handler = "intro", !.ev = ev, !.at = now,
                               !.hadRecord = HasUser(users, uid),
                               !.wasIntroduced = HasUser(users, uid) /\ users[uid].introduced,
                               !.replies = IF nudge THEN <<"media_nudge">> ELSE << >>]
      /\ UNCHANGED <<users, introRateLimiter, attempts>>

IntroMedia(ev) ==
  LET uid == ev.from
      nudge == HasUser(users, uid) /\ ~users[uid].introduced
  IN  /\ last' = [NoObs EXCEPT !.handler = "intro", !.ev = ev, !.at = now,
                               !.hadRecord = HasUser(users, uid),
                               !.wasIntroduced = HasUser(users, uid) /\ users[uid].introduced,
                               !.replies = IF nudge THEN <<"media_nudge">> ELSE << >>]
      /\ UNCHANGED <<users, introRateLimiter, attempts>>

(* the sender filters ending in `return next()` *)
IntroIgnoredCallsNext(ev) ==
  /\ last' = [NoObs EXCEPT !.handler = "gatekeeper", !.ev = ev, !.at = now,
                            !.introNext = TRUE, !.nextCalled = TRUE]
  /\ UNCHANGED <<users, introRateLimiter, attempts>>

IntroIgnored(ev) ==
  /\ last' = [NoObs EXCEPT !.handler = "intro", !.ev = ev, !.at = now]
  /\ UNCHANGED <<users, introRateLimiter, attempts>>

(* ---------------- handlers/gatekeeper.js ---------------- *)
GatekeeperPassesNoBotCheck(ev) ==
  \/ Some(ev.chat) # mainGroupId
  \/ ~ev.hasFrom

GatekeeperPasses(ev) ==
  \/ Some(ev.chat) # mainGroupId
  \/ ~ev.hasFrom
  \/ ev.is_bot

KeepLastTwo(log, t) == IF Len(log) < 2 THEN Append(log, t) ELSE <<log[2], t>>

GatekeeperAllowsInverted(db, userId, res) ==
  res \/ ~HasUser(db, userId) \/ ~db[userId].introduced

(* `if (await isAdmin(...)) return next()` and `if (!user || user.introduced) return next()` *)
GatekeeperAllows(db, userId, res) ==
  res \/ ~HasUser(db, userId) \/ db[userId].introduced

(* the handler after `await adminCache.isAdmin(...)` gave res *)
GatekeeperRest(s, ev, res, logging) ==
  LET had == HasUser(users, ev.from)
      obs == [NoObs EXCEPT !.handler = "gatekeeper", !.ev = ev, !.at = now,
                           !.introNext = TRUE, !.admin = res, !.hadRecord = had,
                           !.wasIntroduced = had /\ users[ev.from].introduced]
  IN  /\ Done(s)
      /\ IF GatekeeperAllows(users, ev.from, res)
           THEN /\ last' = [obs EXCEPT !.nextCalled = TRUE]
                /\ UNCHANGED <<reminderCooldowns, reminderLog>>
         ELSE IF isLimited(reminderCooldowns, ev.from, now)
           THEN /\ last' = [obs EXCEPT !.deleted = TRUE, !.limited = TRUE]
                /\ UNCHANGED <<reminderCooldowns, reminderLog>>
         ELSE /\ reminderCooldowns' = touch(reminderCooldowns, ev.from, now)
              /\ reminderLog' = IF logging
                                  THEN [reminderLog EXCEPT ![ev.from] = KeepLastTwo(@, now)]
                                  ELSE reminderLog
              /\ last' = [obs EXCEPT !.deleted = TRUE, !.replies = <<"reminder">>]

(* the handler from its start *)
Gatekeeper(ev, logging) ==
  IF GatekeeperPasses(ev)
    THEN /\ last' = [NoObs EXCEPT !.handler = "gatekeeper", !.ev = ev, !.at = now,
                                  !.introNext = TRUE, !.nextCalled = TRUE]
         /\ UNCHANGED <<tasks, reminderCooldowns, reminderLog>>
  ELSE IF isAdminSettled(_cache, IdOf(mainGroupId), ev.from)
    THEN GatekeeperRest(0, ev, isAdminValue(_cache, IdOf(mainGroupId), ev.from), logging)
  ELSE /\ Suspend(0, ev, 1, IdOf(mainGroupId), ev.from)
       /\ UNCHANGED <<last, reminderCooldowns, reminderLog>>

(* One 'message' update that is not a registered command: the intro        *)
(* handler runs first and the gatekeeper only if the intro handler calls   *)
(* next().                                                                 *)
Message(ev, logging, maxAttempts) ==
  /\ ev.kind = "message"
  /\ IF Some(ev.chat) # introChannelId
       THEN /\ Gatekeeper(ev, logging)
            /\ UNCHANGED <<users, introRateLimiter, attempts>>
     ELSE IF ~ev.hasFrom \/ ev.from = ev.chat
       THEN IntroIgnored(ev) /\ UNCHANGED <<tasks, reminderCooldowns, reminderLog>>
     ELSE IF ev.text = Null
       THEN IntroMedia(ev) /\ UNCHANGED <<tasks, reminderCooldowns, reminderLog>>
     ELSE /\ MapHas(introRateLimiter._map, ev.from)
               => MapGet(introRateLimiter._map, ev.from).count < maxAttempts
          /\ IntroText(ev, logging)
          /\ UNCHANGED <<tasks, reminderCooldowns, reminderLog>>
  /\ UNCHANGED <<now, ticks, configVars, _cache, welcomeCooldowns, probe, map, call, trace>>

GatekeeperResume(s, outcome, logging) ==
  /\ tasks[s].pc = "resolving"
  /\ tasks[s].ev.kind = "message"
  /\ _cache' = ResolvedCache(s, outcome)
  /\ GatekeeperRest(s, tasks[s].ev, ResolvedValue(outcome), logging)
  /\ UNCHANGED <<now, ticks, users, configVars, introRateLimiter, welcomeCooldowns, attempts, probe, map, call, trace>>

(* ---------------- handlers/welcome.js ---------------- *)
Members(ids) == [id : ids, is_bot : BOOLEAN]

(* the loop with the mass-join and limiter tests placed before upsertUser *)
RECURSIVE JoinLoopUpsertsWelcomed(_, _, _, _, _, _, _)
JoinLoopUpsertsWelcomed(members, i, chat, isMassJoin, db, wc, replies) ==
  IF i > Len(members) THEN [db |-> db, wc |-> wc, replies |-> replies]
  ELSE LET member == members[i]
       IN  IF member.is_bot \/ isMassJoin \/ isLimited(wc, chat, now)
             THEN JoinLoopUpsertsWelcomed(members, i + 1, chat, isMassJoin, db, wc, replies)
           ELSE JoinLoopUpsertsWelcomed(members, i + 1, chat, isMassJoin,
                                        upsertUser(db, member.id, UserName(member.id)),
                                        touch(wc, chat, now), Append(replies, "welcome"))

(* the `for (const member of members)` loop, from member i on *)
RECURSIVE JoinLoop(_, _, _, _, _, _, _)
JoinLoop(members, i, chat, isMassJoin, db, wc, replies) ==
  IF i > Len(members) THEN [db |-> db, wc |-> wc, replies |-> replies]
  ELSE LET member == members[i]
           db1 == upsertUser(db, member.id, UserName(member.id))
       IN  IF member.is_bot
             THEN JoinLoop(members, i + 1, chat, isMassJoin, db, wc, replies)
           ELSE IF isMassJoin \/ isLimited(wc, chat, now)
             THEN JoinLoop(members, i + 1, chat, isMassJoin, db1, wc, replies)
           ELSE JoinLoop(members, i + 1, chat, isMassJoin, db1, touch(wc, chat, now),
                         Append(replies, "welcome"))

(* the handler without the mass-join threshold *)
JoinAnySize(chat, members) ==
  LET ev == ("new_chat_members" :> members)
              @@ [NoEvent EXCEPT !.kind = "new_chat_members", !.chat = chat]
      isMassJoin == FALSE
      r == JoinLoop(members, 1, chat, isMassJoin, users, welcomeCooldowns, << >>)
  IN  /\ IF Some(chat) # mainGroupId
           THEN /\ last' = [NoObs EXCEPT !.handler = "welcome", !.ev = ev, !.at = now]
                /\ UNCHANGED <<users, welcomeCooldowns>>
           ELSE /\ users' = r.db
                /\ welcomeCooldowns' = r.wc
                /\ last' = [NoObs EXCEPT !.handler = "welcome", !.ev = ev, !.at = now,
                                         !.applied = TRUE, !.replies = r.replies]
      /\ UNCHANGED <<now, ticks, configVars, _cache, reminderCooldowns, introRateLimiter,
                     tasks, historyVars, probe, map, call, trace>>

Join(chat, members) ==
  LET ev == ("new_chat_members" :> members)
              @@ [NoEvent EXCEPT !.kind = "new_chat_members", !.chat = chat]
      isMassJoin == Len(members) > MAX_NEW_MEMBERS_PER_EVENT
      r == JoinLoop(members, 1, chat, isMassJoin, users, welcomeCooldowns, << >>)
  IN  /\ IF Some(chat) # mainGroupId
           THEN /\ last' = [NoObs EXCEPT !.handler = "welcome", !.ev = ev, !.at = now]
                /\ UNCHANGED <<users, welcomeCooldowns>>
           ELSE /\ users' = r.db
                /\ welcomeCooldowns' = r.wc
                /\ last' = [NoObs EXCEPT !.handler = "welcome", !.ev = ev, !.at = now,
                                         !.applied = TRUE, !.replies = r.replies]
      /\ UNCHANGED <<now, ticks, configVars, _cache, reminderCooldowns, introRateLimiter,
                     tasks, historyVars, probe, map, call, trace>>

(* ---------------- handlers/admin.js ---------------- *)
ManageCommands == {"approve", "reset", "status", "pending"}
SetupCommands == {"setgroup", "setintro"}

(* the first argument of the command text, after Number(): an integer or not *)
ArgInt(n) == Some([isInt |-> TRUE, n |-> n])
ArgOther == Some([isInt |-> FALSE, n |-> 0])

ReplyFrom(u, bot) == Some([hasFrom |-> TRUE, id |-> u, is_bot |-> bot])
ReplyNoFrom == Some([hasFrom |-> FALSE, id |-> 0, is_bot |-> FALSE])

ArgTargets(ids) == {[reply_to |-> Null, arg |-> a] : a \in {Null} \cup {ArgInt(u) : u \in ids}}

OddTargets ==
  {[reply_to |-> Null, arg |-> a] : a \in {ArgOther, ArgInt(0)}}
  \cup {[reply_to |-> r, arg |-> Null] : r \in {ReplyFrom(MaxUsers, FALSE), ReplyFrom(1, TRUE), ReplyNoFrom}}

Commands(names, chats, senders, targets) ==
  { [NoEvent EXCEPT !.kind = "command", !.name = n, !.chat = c, !.chatType = "supergroup",
                    !.hasFrom = TRUE, !.from = f, !.message_id = 1,
                    !.reply_to = t.reply_to, !.arg = t.arg] :
      n \in names, c \in chats, f \in senders, t \in targets }

(* resolveTargetId without the `from.is_bot` test *)
resolveTargetIdAcceptsBots(ev) ==
  IF ev.reply_to # Null
    THEN LET from == IdOf(ev.reply_to)
         IN  IF ~from.hasFrom THEN Null ELSE Some(from.id)
  ELSE IF ev.arg # Null
    THEN LET parsed == IdOf(ev.arg)
         IN  IF parsed.isInt /\ parsed.n > 0 THEN Some(parsed.n) ELSE Null
  ELSE Null

(* null is the empty set, an id the singleton *)
resolveTargetId(ev) ==
  IF ev.reply_to # Null
    THEN LET from == IdOf(ev.reply_to)
         IN  IF ~from.hasFrom \/ from.is_bot THEN Null ELSE Some(from.id)
  ELSE IF ev.arg # Null
    THEN LET parsed == IdOf(ev.arg)
         IN  IF parsed.isInt /\ parsed.n > 0 THEN Some(parsed.n) ELSE Null
  ELSE Null

CmdObs(ev) == [NoObs EXCEPT !.handler = ev.name, !.ev = ev, !.at = now]

getPending(db) == {u \in DOMAIN db : ~db[u].introduced}

PENDING_PAGE_SIZE == 50

PendingReply(ev, db) ==
  LET parsed == IF ev.arg = Null THEN [isInt |-> FALSE, n |-> 0] ELSE IdOf(ev.arg)
      pageNum == IF parsed.isInt /\ parsed.n >= 1 THEN parsed.n ELSE 1
      start == (pageNum - 1) * PENDING_PAGE_SIZE
      count == Cardinality(getPending(db))
  IN  IF count = 0 THEN "no_pending"
      ELSE IF start >= count THEN "no_results"
      ELSE "pending_list"

(* approve / reset / status / pending after requireMainGroupAdmin's await *)
ManageRest(s, ev, res) ==
  LET targetId == resolveTargetId(ev)
      obs == [CmdObs(ev) EXCEPT !.admin = res, !.target = targetId,
                                !.hadRecord = targetId # Null /\ HasUser(users, IdOf(targetId)),
                                !.wasIntroduced = /\ targetId # Null
                                                  /\ HasUser(users, IdOf(targetId))
                                                  /\ users[IdOf(targetId)].introduced]
  IN  /\ Done(s)
      /\ IF ~res
           THEN last' = obs /\ UNCHANGED users
         ELSE IF ev.name = "pending"
           THEN /\ last' = [obs EXCEPT !.target = Null, !.hadRecord = FALSE,
                                       !.wasIntroduced = FALSE,
                                       !.replies = <<PendingReply(ev, users)>>]
                /\ UNCHANGED users
         ELSE IF targetId = Null
           THEN last' = [obs EXCEPT !.replies = <<"usage">>] /\ UNCHANGED users
         ELSE IF ev.name = "approve"
           THEN /\ users' = markIntroduced(
                              IF HasUser(users, IdOf(targetId)) THEN users
                              ELSE upsertUser(users, IdOf(targetId), Null),
                              IdOf(targetId), Null, now)
                /\ last' = [obs EXCEPT !.applied = TRUE, !.replies = <<"approved">>]
         ELSE IF ~HasUser(users, IdOf(targetId))
           THEN last' = [obs EXCEPT !.replies = <<"not_found">>] /\ UNCHANGED users
         ELSE IF ev.name = "reset"
           THEN /\ users' = resetUser(users, IdOf(targetId))
                /\ last' = [obs EXCEPT !.applied = TRUE, !.replies = <<"reset">>]
         ELSE last' = [obs EXCEPT !.replies = <<"status">>] /\ UNCHANGED users

(* requireMainGroupAdmin without the isMainGroup test *)
ManageAnyChat(ev) ==
  IF ~ev.hasFrom \/ mainGroupId = Null
    THEN last' = CmdObs(ev) /\ UNCHANGED <<tasks, users>>
  ELSE IF isAdminSettled(_cache, IdOf(mainGroupId), ev.from)
    THEN ManageRest(0, ev, isAdminValue(_cache, IdOf(mainGroupId), ev.from))
  ELSE Suspend(0, ev, 1, IdOf(mainGroupId), ev.from) /\ UNCHANGED <<last, users>>

(* requireMainGroupAdmin(handler) from its start *)
Manage(ev) ==
  IF Some(ev.chat) # mainGroupId \/ ~ev.hasFrom \/ mainGroupId = Null
    THEN last' = CmdObs(ev) /\ UNCHANGED <<tasks, users>>
  ELSE IF isAdminSettled(_cache, IdOf(mainGroupId), ev.from)
    THEN ManageRest(0, ev, isAdminValue(_cache, IdOf(mainGroupId), ev.from))
  ELSE Suspend(0, ev, 1, IdOf(mainGroupId), ev.from) /\ UNCHANGED <<last, users>>

(* /setgroup's tail without the isMainGroupFromEnv test *)
SetgroupFinishIgnoresEnv(s, ev, obs) ==
  /\ Done(s)
  /\ settings' = [settings EXCEPT !.MAIN_GROUP_ID = Some(ev.chat)]
  /\ mainGroupId' = Some(ev.chat)
  /\ last' = [obs EXCEPT !.applied = TRUE, !.replies = <<"main_group_set">>]
  /\ UNCHANGED <<introChannelId, mainGroupFromEnv, introChannelFromEnv>>

SetgroupFinish(s, ev, obs) ==
  /\ Done(s)
  /\ IF mainGroupFromEnv
       THEN last' = [obs EXCEPT !.replies = <<"locked">>] /\ UNCHANGED configVars
       ELSE /\ settings' = [settings EXCEPT !.MAIN_GROUP_ID = Some(ev.chat)]
            /\ mainGroupId' = Some(ev.chat)
            /\ last' = [obs EXCEPT !.applied = TRUE, !.replies = <<"main_group_set">>]
            /\ UNCHANGED <<introChannelId, mainGroupFromEnv, introChannelFromEnv>>

(* /setgroup without the check on the existing main group *)
SetgroupRestAnyAdmin(s, ev, stage, res, cache) ==
  LET obs == [CmdObs(ev) EXCEPT !.admin = res]
  IN  IF ~res
        THEN Done(s) /\ last' = obs /\ UNCHANGED configVars
      ELSE SetgroupFinish(s, ev, obs)

(* /setgroup after `await isAdmin(ctx)` (stage 1) and after the await on   *)
(* the existing main group (stage 2); cache is the admin cache as the      *)
(* resolver left it                                                        *)
SetgroupRest(s, ev, stage, res, cache) ==
  LET obs == [CmdObs(ev) EXCEPT !.admin = res]
  IN  IF stage = 1
        THEN IF ~res
               THEN Done(s) /\ last' = obs /\ UNCHANGED configVars
             ELSE IF mainGroupId # Null /\ mainGroupId # Some(ev.chat)
               THEN IF isAdminSettled(cache, IdOf(mainGroupId), ev.from)
                      THEN IF ~isAdminValue(cache, IdOf(mainGroupId), ev.from)
                             THEN /\ Done(s)
                                  /\ last' = [obs EXCEPT !.admin = FALSE,
                                                         !.replies = <<"already_configured">>]
                                  /\ UNCHANGED configVars
                             ELSE SetgroupFinish(s, ev, obs)
                      ELSE /\ Suspend(s, ev, 2, IdOf(mainGroupId), ev.from)
                           /\ UNCHANGED <<last, configVars>>
             ELSE SetgroupFinish(s, ev, obs)
        ELSE IF ~res
               THEN /\ Done(s)
                    /\ last' = [obs EXCEPT !.replies = <<"already_configured">>]
                    /\ UNCHANGED configVars
             ELSE SetgroupFinish(s, ev, obs)

SetintroFinish(s, ev, obs) ==
  /\ Done(s)
  /\ IF Some(ev.chat) = mainGroupId
       THEN last' = [obs EXCEPT !.replies = <<"same_as_main">>] /\ UNCHANGED configVars
     ELSE IF introChannelFromEnv
       THEN last' = [obs EXCEPT !.replies = <<"locked">>] /\ UNCHANGED configVars
     ELSE /\ settings' = [settings EXCEPT !.INTRO_CHANNEL_ID = Some(ev.chat)]
          /\ introChannelId' = Some(ev.chat)
          /\ last' = [obs EXCEPT !.applied = TRUE, !.replies = <<"intro_channel_set">>]
          /\ UNCHANGED <<mainGroupId, mainGroupFromEnv, introChannelFromEnv>>

SetintroRest(s, ev, stage, res, cache) ==
  LET obs == [CmdObs(ev) EXCEPT !.admin = res]
  IN  IF stage = 1
        THEN IF ~res
               THEN Done(s) /\ last' = obs /\ UNCHANGED configVars
             ELSE IF introChannelId # Null /\ introChannelId # Some(ev.chat)
               THEN IF mainGroupId = Null
                      THEN /\ Done(s)
                           /\ last' = [obs EXCEPT !.replies = <<"set_main_first">>]
                           /\ UNCHANGED configVars
                    ELSE IF isAdminSettled(cache, IdOf(mainGroupId), ev.from)
                      THEN IF ~isAdminValue(cache, IdOf(mainGroupId), ev.from)
                             THEN /\ Done(s)
                                  /\ last' = [obs EXCEPT !.admin = FALSE,
                                                         !.replies = <<"already_configured">>]
                                  /\ UNCHANGED configVars
                             ELSE SetintroFinish(s, ev, obs)
                    ELSE /\ Suspend(s, ev, 2, IdOf(mainGroupId), ev.from)
                         /\ UNCHANGED <<last, configVars>>
             ELSE SetintroFinish(s, ev, obs)
        ELSE IF ~res
               THEN /\ Done(s)
                    /\ last' = [obs EXCEPT !.replies = <<"already_configured">>]
                    /\ UNCHANGED configVars
             ELSE SetintroFinish(s, ev, obs)

SetupRest(s, ev, stage, res, cache) ==
  IF ev.name = "setgroup" THEN SetgroupRest(s, ev, stage, res, cache)
  ELSE SetintroRest(s, ev, stage, res, cache)

(* /setgroup and /setintro from their start *)
Setup(ev) ==
  IF ev.chatType = "private"
    THEN /\ last' = [CmdObs(ev) EXCEPT !.replies = <<"not_in_private">>]
         /\ UNCHANGED <<tasks, configVars>>
  ELSE IF ~ev.hasFrom
    THEN SetupRest(0, ev, 1, FALSE, _cache)
  ELSE IF isAdminSettled(_cache, ev.chat, ev.from)
    THEN SetupRest(0, ev, 1, isAdminValue(_cache, ev.chat, ev.from), _cache)
  ELSE Suspend(0, ev, 1, ev.chat, ev.from) /\ UNCHANGED <<last, configVars>>

(* bot.command(...): a registered command is handled by its handler, which *)
(* takes no `next`, so the update reaches no later handler                 *)
Command(ev) ==
  /\ ev.kind = "command"
  /\ IF ev.name \in ManageCommands
       THEN Manage(ev) /\ UNCHANGED configVars
       ELSE Setup(ev) /\ UNCHANGED users
  /\ UNCHANGED <<now, ticks, _cache, limiterVars, historyVars, probe, map, call, trace>>

ManageResume(s, outcome) ==
  /\ tasks[s].pc = "resolving"
  /\ tasks[s].ev.kind = "command"
  /\ tasks[s].ev.name \in ManageCommands
  /\ _cache' = ResolvedCache(s, outcome)
  /\ ManageRest(s, tasks[s].ev, ResolvedValue(outcome))
  /\ UNCHANGED <<now, ticks, configVars, limiterVars, historyVars, probe, map, call, trace>>

SetupResume(s, outcome) ==
  /\ tasks[s].pc = "resolving"
  /\ tasks[s].ev.kind = "command"
  /\ tasks[s].ev.name \in SetupCommands
  /\ _cache' = ResolvedCache(s, outcome)
  /\ SetupRest(s, tasks[s].ev, tasks[s].stage, ResolvedValue(outcome), ResolvedCache(s, outcome))
  /\ UNCHANGED <<now, ticks, users, limiterVars, historyVars, probe, map, call, trace>>

(* `last` is written by the step that finishes a handler run and is read  *)
(* by no handler; it is taken off before the next step.                    *)
Observed ==
  /\ last # NoObs
  /\ last' = NoObs
  /\ UNCHANGED <<now, ticks, users, configVars, _cache, limiterVars, tasks, historyVars, probe, map, call, trace>>

(* ---------------- the validator applied to constructed texts ---------- *)
(* A probe text is built from a set of keywords (by index), written in     *)
(* lower or upper case and separated by ".", and padded with "x" to a      *)
(* given length; neither "." nor "x" occurs in a keyword.                  *)
RECURSIVE JoinKeywords(_, _)
JoinKeywords(i, kws) ==
  IF i > Len(INTRO_KEYWORDS) THEN << >>
  ELSE IF i \in kws THEN INTRO_KEYWORDS[i] \o <<".">> \o JoinKeywords(i + 1, kws)
  ELSE JoinKeywords(i + 1, kws)

BuildText(kws, upper, len) ==
  LET part == IF upper THEN toUpperCase(JoinKeywords(1, kws)) ELSE JoinKeywords(1, kws)
  IN  part \o Filler(len - Len(part))

ProbeLengths ==
  {INTRO_MIN_LENGTH - 1, INTRO_MIN_LENGTH, INTRO_KEYWORD_BYPASS_LENGTH - 1,
   INTRO_KEYWORD_BYPASS_LENGTH, INTRO_MAX_LENGTH, INTRO_MAX_LENGTH + 1}

Probes ==
  { r \in [kws : SUBSET (1..Len(INTRO_KEYWORDS)), upper : BOOLEAN, len : ProbeLengths,
           verdict : {Null}] : Len(JoinKeywords(1, r.kws)) <= r.len }

InitValid ==
  /\ InitCommon(FlowTasks)
  /\ InitConfigured(TRUE, TRUE)

Validate ==
  /\ probe.verdict = Null
  /\ \E r \in Probes :
       probe' = [r EXCEPT !.verdict = Some(isValidIntro(BuildText(r.kws, r.upper, r.len)))]
  /\ UNCHANGED <<now, ticks, users, configVars, _cache, limiterVars, tasks, last, historyVars, map, call, trace>>

Forget ==
  /\ probe.verdict # Null
  /\ probe' = NoProbe
  /\ UNCHANGED <<now, ticks, users, configVars, _cache, limiterVars, tasks, last, historyVars, map, call, trace>>

NextValid == Validate \/ Forget

SpecValid == InitValid /\ [][NextValid]_vars

(* C9: isValidIntro(text) is true exactly when the length is within        *)
(* [INTRO_MIN_LENGTH, INTRO_MAX_LENGTH] and the text holds at least two    *)
(* keywords (in any letter case) or is at least                            *)
(* INTRO_KEYWORD_BYPASS_LENGTH long; so 49 and 4001 characters are always  *)
(* rejected, 50 with two keywords and 150..4000 with none are accepted,    *)
(* and 50..149 with fewer than two keywords is rejected.                   *)
C9_ValidIffLengthAndKeywords ==
  probe.verdict # Null =>
    LET v == IdOf(probe.verdict)
        n == Cardinality(probe.kws)
    IN  /\ v <=> /\ INTRO_MIN_LENGTH <= probe.len
                 /\ probe.len <= INTRO_MAX_LENGTH
                 /\ (n >= 2 \/ probe.len >= INTRO_KEYWORD_BYPASS_LENGTH)
        /\ probe.len = 49 => ~v
        /\ probe.len = 4001 => ~v
        /\ (probe.len = 50 /\ n = 2) => v
        /\ (probe.len >= 150 /\ probe.len <= 4000 /\ n = 0) => v
        /\ (probe.len >= 50 /\ probe.len <= 149 /\ n < 2) => ~v

C9_Witness ==
  /\ probe.verdict = Some(TRUE)
  /\ probe.len = INTRO_MIN_LENGTH
  /\ Cardinality(probe.kws) = 2
  /\ probe.upper

(* ---------------- the intro channel alone ---------------- *)
IntroSenders == {1}
IntroSteps == {1, INTRO_RATE_LIMIT_WINDOW_MS}

IntroEvents ==
  IntroTexts(IntroSenders, TextIds, MsgIds)
  \cup {ev \in PlainMessages({INTRO_CHANNEL}, IntroSenders) : ev.text = Null /\ ~ev.is_bot}
  \cup ChannelMessages({INTRO_CHANNEL})
  \cup {ev \in PlainMessages({OTHER_CHAT}, IntroSenders) : ~ev.is_bot}

IntroMessage ==
  /\ last = NoObs
  /\ \E ev \in IntroEvents : Message(ev, TRUE, IntroAttempts)

IntroTick ==
  /\ last = NoObs
  /\ \E d \in IntroSteps : Tick(d, IntroTicks)

IntroPurge == last = NoObs /\ PurgeIntro

InitIntro ==
  /\ InitCommon(FlowTasks)
  /\ InitConfigured(TRUE, TRUE)

NextIntro == IntroMessage \/ IntroTick \/ IntroPurge \/ Observed

SpecIntro == InitIntro /\ [][NextIntro]_vars

IsIntroText(obs) ==
  /\ obs.handler = "intro"
  /\ obs.ev.hasFrom
  /\ obs.ev.from # obs.ev.chat
  /\ obs.ev.text # Null

(* C8: a text message in the intro channel that is not rate-limited, from  *)
(* a sender with no record or a Pending record, leaves a record for the    *)
(* sender; if isValidIntro accepts the text the record is introduced with  *)
(* intro_msg_id the id of that message and the only reply is the           *)
(* acceptance; if it rejects, the only reply is the nudge and the record   *)
(* stays Pending.                                                          *)
C8_IntroTextOutcome ==
  (IsIntroText(last) /\ ~last.limited /\ ~last.wasIntroduced) =>
    LET u == last.ev.from
    IN  /\ HasUser(users, u)
        /\ IF isValidIntro(TextOf(last.ev))
             THEN /\ users[u].introduced
                  /\ users[u].intro_msg_id = Some(last.ev.message_id)
                  /\ last.replies = <<"accepted">>
             ELSE /\ ~users[u].introduced
                  /\ users[u].intro_msg_id = Null
                  /\ last.replies = <<"nudge">>

C8_Witness ==
  /\ IsIntroText(last)
  /\ ~last.limited
  /\ ~last.hadRecord
  /\ last.ev.message_id = MaxMsgId
  /\ last.replies = <<"accepted">>
  /\ users[last.ev.from].intro_msg_id = Some(MaxMsgId)

(* the attempt that opened the rate-limit window attempt i falls in:       *)
(* a window opens with an attempt and holds every later attempt made no    *)
(* more than INTRO_RATE_LIMIT_WINDOW_MS after it                           *)
RECURSIVE WindowStart(_, _)
WindowStart(log, i) ==
  IF i = 1 THEN 1
  ELSE LET a == WindowStart(log, i - 1)
       IN  IF log[i].at - log[a].at > INTRO_RATE_LIMIT_WINDOW_MS THEN i ELSE a

PlaceInWindow(log, i) == i - WindowStart(log, i) + 1

(* C10: of a sender's text messages in the intro channel, the first        *)
(* INTRO_RATE_LIMIT_MAX of a window are processed (a record exists         *)
(* afterwards, and a sender not yet introduced gets one reply); every      *)
(* further one in that window gets no reply and leaves the users table     *)
(* as it was, so the sender is not introduced even by a valid text.        *)
C10_RateLimitSilent ==
  [][ (last = NoObs /\ IsIntroText(last')) =>
        LET u == last'.ev.from
            log == attempts'[u]
            place == PlaceInWindow(log, Len(log))
        IN  IF place <= INTRO_RATE_LIMIT_MAX
              THEN /\ ~last'.limited
                   /\ HasUser(users', u)
                   /\ ~last'.wasIntroduced => Len(last'.replies) = 1
              ELSE /\ last'.limited
                   /\ last'.replies = << >>
                   /\ users' = users ]_vars

C10_Witness ==
  /\ IsIntroText(last)
  /\ last.limited
  /\ isValidIntro(TextOf(last.ev))
  /\ PlaceInWindow(attempts[last.ev.from], Len(attempts[last.ev.from])) = INTRO_RATE_LIMIT_MAX + 1
  /\ HasUser(users, last.ev.from)
  /\ ~users[last.ev.from].introduced

(* ---------------- the gatekeeper under concurrent messages ------------ *)
GateSenders == {1}
GateSteps == {1, REMINDER_COOLDOWN_MS - 1}

(* main-group messages of a user or a bot, and a user's message elsewhere *)
GateEvents ==
  { ev \in PlainMessages({MAIN_GROUP, OTHER_CHAT}, GateSenders) :
      /\ ev.text = Null
      /\ ev.is_bot => ev.chat = MAIN_GROUP }

GateMessage ==
  /\ last = NoObs
  /\ \E ev \in GateEvents : Message(ev, TRUE, FlowAttempts)

GateResume ==
  /\ last = NoObs
  /\ \E s \in DOMAIN tasks, outcome \in Outcomes : GatekeeperResume(s, outcome, TRUE)

GateJoin ==
  /\ last = NoObs
  /\ \E u \in GateSenders : Join(MAIN_GROUP, <<[id |-> u, is_bot |-> FALSE]>>)

GateTick ==
  /\ last = NoObs
  /\ \E d \in GateSteps : Tick(d, GateTicks)

GatePurge == last = NoObs /\ PurgeReminder

(* the users table as the database file holds it at startup: empty, or    *)
(* with a sender introduced in an earlier run                              *)
StoredIntroduced(u) ==
  markIntroduced(upsertUser(<< >>, u, UserName(u)), u, Some(1), 0)

InitGate ==
  /\ now = 0
  /\ ticks = 0
  /\ users \in {<< >>} \cup {StoredIntroduced(u) : u \in GateSenders}
  /\ _cache = << >>
  /\ reminderCooldowns = CooldownMap(REMINDER_COOLDOWN_MS, 0)
  /\ introRateLimiter = CooldownMap(INTRO_RATE_LIMIT_WINDOW_MS, 0)
  /\ welcomeCooldowns = CooldownMap(WELCOME_COOLDOWN_MS, 0)
  /\ tasks = [s \in 1..GateTasks |-> Idle]
  /\ last = NoObs
  /\ reminderLog = [u \in UserIds |-> << >>]
  /\ attempts = [u \in UserIds |-> << >>]
  /\ probe = NoProbe
  /\ map = CooldownMap(TEST_WINDOW_MS, 0)
  /\ call = NoCall
  /\ trace = << >>
  /\ InitConfigured(TRUE, TRUE)

FlowManageResume ==
  /\ last = NoObs
  /\ \E s \in DOMAIN tasks, outcome \in Outcomes : ManageResume(s, outcome)

NextGate ==
  GateMessage \/ GateResume \/ GateJoin \/ GateTick \/ GatePurge \/ Observed

SpecGate == InitGate /\ [][NextGate]_vars

InMainGroup(obs) == Some(obs.ev.chat) = mainGroupId

(* C1: when the gatekeeper handles a main-group message of a sender that   *)
(* is not a bot, was not resolved as admin and whose record, when read,    *)
(* has introduced = false, the message is deleted and next() is not called *)
C1_PendingDeleted ==
  ( /\ last.handler = "gatekeeper"
    /\ InMainGroup(last)
    /\ last.ev.hasFrom
    /\ ~last.ev.is_bot
    /\ ~last.admin
    /\ last.hadRecord
    /\ ~last.wasIntroduced )
  => (last.deleted /\ ~last.nextCalled)

C1_Witness ==
  /\ last.handler = "gatekeeper"
  /\ InMainGroup(last)
  /\ ~last.ev.is_bot
  /\ last.hadRecord
  /\ ~last.wasIntroduced
  /\ ~last.admin
  /\ last.deleted
  /\ ~last.nextCalled
  /\ last.ev.text = Null

(* C2: the gatekeeper deletes nothing, sends no reminder and calls next()  *)
(* when the message is outside the main group, or the sender is a bot, or  *)
(* is resolved as admin, or has no record, or is introduced                *)
C2_PassThrough ==
  ( /\ last.handler = "gatekeeper"
    /\ \/ ~InMainGroup(last)
       \/ last.ev.is_bot
       \/ last.admin
       \/ ~last.hadRecord
       \/ last.wasIntroduced )
  => (~last.deleted /\ last.replies = << >> /\ last.nextCalled)

C2_Witness ==
  /\ last.handler = "gatekeeper"
  /\ InMainGroup(last)
  /\ ~last.ev.is_bot
  /\ last.admin
  /\ last.hadRecord
  /\ ~last.wasIntroduced
  /\ last.nextCalled
  /\ ~last.deleted

(* C4: whatever the interleaving of the handlers of one Pending user's     *)
(* main-group messages, two reminders to that user are at least            *)
(* REMINDER_COOLDOWN_MS apart; a message that gets a reminder or is within *)
(* the cooldown is deleted; and the reminder is sent in the step that      *)
(* found the user not limited and touched the limiter                      *)
C4_RemindersSpaced ==
  /\ \A u \in UserIds :
       Len(reminderLog[u]) = 2 => reminderLog[u][2] - reminderLog[u][1] >= REMINDER_COOLDOWN_MS
  /\ (last.handler = "gatekeeper" /\ (last.limited \/ last.replies # << >>)) => last.deleted
  /\ (last.handler = "gatekeeper" /\ last.replies # << >>) =>
       /\ ~last.limited
       /\ MapGet(reminderCooldowns._map, last.ev.from) = [ts |-> now]
       /\ reminderLog[last.ev.from][Len(reminderLog[last.ev.from])] = now

C4_Witness ==
  /\ last.handler = "gatekeeper"
  /\ last.replies = <<"reminder">>
  /\ Len(reminderLog[last.ev.from]) = 2
  /\ reminderLog[last.ev.from][2] - reminderLog[last.ev.from][1] = REMINDER_COOLDOWN_MS
  /\ \E s \in DOMAIN tasks : tasks[s].pc = "resolving" /\ tasks[s].ev.from = last.ev.from

(* ---------------- the whole bot, at one reading of the clock ---------- *)
(* user 1 is the one who sends messages and commands; every user can join *)
(* and be the target of a command                                          *)
FlowSenders == {1}

FlowMessages ==
  IntroTexts(FlowSenders, {1, 2}, {1})
  \cup {ev \in PlainMessages({MAIN_GROUP}, FlowSenders) : ~ev.is_bot}
  \cup {ev \in PlainMessages({INTRO_CHANNEL}, FlowSenders) : ~ev.is_bot /\ ev.text = Null}

FlowCommands ==
  Commands(ManageCommands, {MAIN_GROUP}, FlowSenders, ArgTargets(UserIds))
  \cup Commands({"reset"}, {MAIN_GROUP}, FlowSenders, OddTargets)
  \cup Commands(SetupCommands, {MAIN_GROUP}, FlowSenders, ArgTargets({}))

MassJoin == [i \in 1..(MAX_NEW_MEMBERS_PER_EVENT + 1) |-> [id |-> 1, is_bot |-> FALSE]]

JoinBatches ==
  {<<m>> : m \in Members(UserIds)}
  \cup {<<[id |-> 1, is_bot |-> FALSE], [id |-> MaxUsers, is_bot |-> FALSE]>>,
        <<[id |-> MaxUsers, is_bot |-> TRUE], [id |-> 1, is_bot |-> FALSE]>>, MassJoin}

FlowMessage ==
  /\ last = NoObs
  /\ \E ev \in FlowMessages : Message(ev, FALSE, FlowAttempts)

FlowCommand ==
  /\ last = NoObs
  /\ \E ev \in FlowCommands : Command(ev)

FlowJoin ==
  /\ last = NoObs
  /\ \E chat \in {MAIN_GROUP, OTHER_CHAT}, members \in JoinBatches : Join(chat, members)

FlowGatekeeperResume ==
  /\ last = NoObs
  /\ \E s \in DOMAIN tasks, outcome \in Outcomes : GatekeeperResume(s, outcome, FALSE)

FlowSetupResume ==
  /\ last = NoObs
  /\ \E s \in DOMAIN tasks, outcome \in Outcomes : SetupResume(s, outcome)

Init ==
  /\ InitCommon(FlowTasks)
  /\ InitConfigured(TRUE, TRUE)

Next ==
  \/ FlowMessage
  \/ FlowCommand
  \/ FlowJoin
  \/ FlowGatekeeperResume
  \/ FlowManageResume
  \/ FlowSetupResume
  \/ Observed

Spec == Init /\ [][Next]_vars

Introduced(db, u) == HasUser(db, u) /\ db[u].introduced

(* C3: with the handlers in their registration order, every message that   *)
(* a Pending sender, not a bot and not resolved as admin, posts in the     *)
(* main group is deleted, be it text, media or one of the registered       *)
(* commands that its handler declines                                      *)
C3_EveryPendingMessageDeleted ==
  ( /\ last.ev.kind \in {"message", "command"}
    /\ InMainGroup(last)
    /\ last.ev.hasFrom
    /\ ~last.ev.is_bot
    /\ ~last.admin
    /\ HasUser(users, last.ev.from)
    /\ ~users[last.ev.from].introduced )
  => last.deleted

(* C5: introduced goes from true to false only in a /reset that targets    *)
(* the user and is run in the main group by a sender resolved as admin     *)
C5_OnlyResetClears ==
  [][ \A u \in UserIds :
        (Introduced(users, u) /\ ~Introduced(users', u)) =>
          /\ HasUser(users', u)
          /\ last'.handler = "reset"
          /\ last'.target = Some(u)
          /\ last'.admin
          /\ last'.applied
          /\ InMainGroup(last') ]_vars

C5_Witness ==
  /\ last.handler = "reset"
  /\ last.applied
  /\ last.wasIntroduced
  /\ ~Introduced(users, IdOf(last.target))
  /\ \E u \in UserIds : u # IdOf(last.target) /\ Introduced(users, u)

(* C6: a user with no record or introduced = false gets introduced = true  *)
(* only by the user's own text in the intro channel that is not            *)
(* rate-limited and that isValidIntro accepts, or by an /approve that      *)
(* targets the user, run in the main group by a sender resolved as admin   *)
C6_OnlyIntroOrApproveSets ==
  [][ \A u \in UserIds :
        (~Introduced(users, u) /\ Introduced(users', u)) =>
          \/ /\ IsIntroText(last')
             /\ last'.ev.from = u
             /\ Some(last'.ev.chat) = introChannelId
             /\ ~last'.limited
             /\ isValidIntro(TextOf(last'.ev))
          \/ /\ last'.handler = "approve"
             /\ last'.target = Some(u)
             /\ last'.admin
             /\ InMainGroup(last') ]_vars

C6_Witness ==
  /\ last.handler = "approve"
  /\ last.applied
  /\ ~last.hadRecord
  /\ last.target = Some(MaxUsers)
  /\ Introduced(users, MaxUsers)
  /\ users[MaxUsers].intro_msg_id = Null

(* C7: every record with introduced = false has introduced_at and          *)
(* intro_msg_id NULL                                                       *)
C7_PendingHasNoIntroData ==
  \A u \in DOMAIN users :
    ~users[u].introduced => (users[u].introduced_at = Null /\ users[u].intro_msg_id = Null)

C7_Witness ==
  /\ last.handler = "reset"
  /\ last.applied
  /\ last.wasIntroduced
  /\ users[IdOf(last.target)].username # Null
  /\ ~users[IdOf(last.target)].introduced
  /\ users[IdOf(last.target)].introduced_at = Null
  /\ users[IdOf(last.target)].intro_msg_id = Null

(* ---------------- a CooldownMap on its own ---------------- *)
(* The map is built as the tests build it, with the keys of the eviction   *)
(* test, and its methods are called in any order while the clock moves.    *)
(* trace[k] is the latest call that wrote key k: touch or increment.       *)
MapKeys == {"a", "b", "c"}

MapCalled(op, key, max, result) ==
  call' = [op |-> op, key |-> key, max |-> max, at |-> now, result |-> result,
           invoked |-> FALSE, before |-> map._map, n |-> call.n + 1]

Construct ==
  /\ call.op = "none"
  /\ \E maxSize \in {0, TEST_MAX_SIZE} : map' = CooldownMap(TEST_WINDOW_MS, maxSize)
  /\ call' = [NoCall EXCEPT !.op = "new"]
  /\ trace' = [k \in MapKeys |-> Null]
  /\ UNCHANGED <<now, ticks, users, configVars, limiterVars, last, historyVars, probe,
                 _cache, tasks>>

TouchCall ==
  /\ call.op # "none"
  /\ call.n < MapCalls
  /\ \E key \in MapKeys :
       /\ map' = touch(map, key, now)
       /\ MapCalled("touch", key, 0, FALSE)
       /\ trace' = [trace EXCEPT ![key] = Some([op |-> "touch", at |-> now])]
  /\ UNCHANGED <<now, ticks, users, configVars, limiterVars, last, historyVars, probe,
                 _cache, tasks>>

IsLimitedCall ==
  /\ call.op # "none"
  /\ call.n < MapCalls
  /\ \E key \in MapKeys : MapCalled("isLimited", key, 0, isLimited(map, key, now))
  /\ UNCHANGED <<now, ticks, users, configVars, limiterVars, last, historyVars, probe,
                 _cache, tasks, map, trace>>

IncrementCall ==
  /\ call.op # "none"
  /\ call.n < MapCalls
  /\ \E key \in MapKeys, max \in {0, 1} :
       /\ map' = incrementMap(map, key, now)
       /\ MapCalled("increment", key, max, incrementExceeded(map, key, max, now))
       /\ trace' = [trace EXCEPT ![key] = Some([op |-> "increment", at |-> now])]
  /\ UNCHANGED <<now, ticks, users, configVars, limiterVars, last, historyVars, probe,
                 _cache, tasks>>

PurgeCall ==
  /\ call.op # "none"
  /\ call.n < MapCalls
  /\ map' = _purge(map, now)
  /\ MapCalled("_purge", 0, 0, FALSE)
  /\ UNCHANGED <<now, ticks, users, configVars, limiterVars, last, historyVars, probe,
                 _cache, tasks, trace>>

MapTick ==
  /\ call.op # "none"
  /\ \E d \in {1, TEST_WINDOW_MS} : Tick(d, MapTicks)

NextCooldown ==
  Construct \/ TouchCall \/ IsLimitedCall \/ IncrementCall \/ PurgeCall \/ MapTick

SpecCooldown == Init /\ [][NextCooldown]_vars

(* C11: increment(key, max) returns true exactly when the count recorded   *)
(* for the key after the call is greater than max, the call that creates   *)
(* the entry or starts a fresh window (count = 1) included                 *)
C11_ExceededIffCountAboveMax ==
  call.op = "increment" =>
    (call.result <=> MapGet(map._map, call.key).count > call.max)

(* C12: an increment made while now - firstAttempt <= window adds one to   *)
(* the count and keeps firstAttempt; the first one made when               *)
(* now - firstAttempt > window stores count = 1 anchored at now and is not *)
(* answered "exceeded", whatever the count of the old window was; so       *)
(* "exceeded" is answered only within one window of the anchor             *)
C12_WindowAnchoredAtFirstAttempt ==
  call.op = "increment" =>
    LET e1 == MapGet(map._map, call.key)
        counted == MapHas(call.before, call.key) /\ IsObject(MapGet(call.before, call.key))
    IN  /\ (counted /\ call.at - MapGet(call.before, call.key).firstAttempt <= map._windowMs) =>
             e1 = [count |-> MapGet(call.before, call.key).count + 1,
                   firstAttempt |-> MapGet(call.before, call.key).firstAttempt]
        /\ (counted /\ call.at - MapGet(call.before, call.key).firstAttempt > map._windowMs) =>
             (e1 = [count |-> 1, firstAttempt |-> call.at] /\ ~call.result)
        /\ call.result => call.at - e1.firstAttempt <= map._windowMs

C12_Witness ==
  /\ call.op = "increment"
  /\ MapHas(call.before, call.key)
  /\ IsObject(MapGet(call.before, call.key))
  /\ MapGet(call.before, call.key).count > 1
  /\ call.at - MapGet(call.before, call.key).firstAttempt = map._windowMs + 1
  /\ MapGet(map._map, call.key) = [count |-> 1, firstAttempt |-> call.at]

(* C13: a key never written is not limited; with no eviction (maxSize 0),  *)
(* a key whose latest write is touch at time t is limited at u exactly     *)
(* when u - t < window; isLimited leaves the map as it was; a touch that   *)
(* evicts nothing leaves isLimited of every other key as it was            *)
C13_LimitedForOneWindowAfterTouch ==
  trace # << >> =>
    /\ \A k \in MapKeys :
         /\ trace[k] = Null => ~isLimited(map, k, now)
         /\ (map._maxSize = 0 /\ trace[k] # Null /\ IdOf(trace[k]).op = "touch") =>
              (isLimited(map, k, now) <=> now - IdOf(trace[k]).at < map._windowMs)
    /\ call.op = "isLimited" =>
         /\ map._map = call.before
         /\ (map._maxSize = 0 /\ trace[call.key] # Null
               /\ IdOf(trace[call.key]).op = "touch") =>
              (call.result <=> call.at - IdOf(trace[call.key]).at < map._windowMs)
    /\ (call.op = "touch" /\ ~(map._maxSize # 0 /\ Len(call.before) >= map._maxSize)) =>
         \A k \in MapKeys \ {call.key} :
           isLimited(map, k, call.at) <=> isLimited([map EXCEPT !._map = call.before], k, call.at)

C13_Witness ==
  /\ call.op = "isLimited"
  /\ ~call.result
  /\ map._maxSize = 0
  /\ trace[call.key] = Some([op |-> "touch", at |-> call.at - map._windowMs])
  /\ MapHas(map._map, call.key)
  /\ \E k \in MapKeys : isLimited(map, k, call.at)

(* C14: _purge removes exactly the entries whose anchor (the timestamp, or *)
(* firstAttempt of a counter entry) is more than window in the past, and   *)
(* keeps every other entry with its value                                  *)
C14_PurgeRemovesExactlyExpired ==
  call.op = "_purge" =>
    LET anchor(val) == IF IsObject(val) THEN val.firstAttempt ELSE val.ts
    IN
    \A k \in MapKeys :
      /\ MapHas(map._map, k) <=>
           /\ MapHas(call.before, k)
           /\ call.at - anchor(MapGet(call.before, k)) <= map._windowMs
      /\ MapHas(map._map, k) => MapGet(map._map, k) = MapGet(call.before, k)

C14_Witness ==
  /\ call.op = "_purge"
  /\ \E k \in MapKeys :
       /\ MapHas(call.before, k) /\ IsObject(MapGet(call.before, k)) /\ ~MapHas(map._map, k)
       /\ call.at - MapGet(call.before, k).firstAttempt = map._windowMs + 1
  /\ \E k \in MapKeys :
       /\ MapHas(call.before, k) /\ ~IsObject(MapGet(call.before, k)) /\ ~MapHas(map._map, k)
  /\ \E k \in MapKeys :
       /\ MapHas(map._map, k)
       /\ ~IsObject(MapGet(map._map, k))
       /\ call.at - MapGet(map._map, k).ts = map._windowMs

(* C15: a map built with maxSize N > 0 never holds more than N entries     *)
C15_SizeAtMostMaxSize ==
  map._maxSize > 0 => Len(map._map) <= map._maxSize

(* C16: touch of an absent key on a map holding exactly maxSize entries    *)
(* removes the entry first in insertion order and no other, adds the key   *)
(* and leaves the size at maxSize; below maxSize it removes nothing        *)
C16_TouchEvictsEarliestInserted ==
  (call.op = "touch" /\ map._maxSize > 0 /\ ~MapHas(call.before, call.key)) =>
    LET full == Len(call.before) = map._maxSize
    IN  /\ MapGet(map._map, call.key) = [ts |-> call.at]
        /\ \A k \in MapKeys \ {call.key} :
             /\ MapHas(map._map, k) <=>
                  (MapHas(call.before, k) /\ ~(full /\ call.before[1].key = k))
             /\ MapHas(map._map, k) => MapGet(map._map, k) = MapGet(call.before, k)
        /\ full => Len(map._map) = map._maxSize
        /\ Len(call.before) < map._maxSize => Len(map._map) = Len(call.before) + 1

C16_Witness ==
  /\ call.op = "touch"
  /\ ~MapHas(call.before, call.key)
  /\ Len(call.before) = map._maxSize
  /\ map._maxSize = TEST_MAX_SIZE
  /\ ~MapHas(map._map, call.before[1].key)
  /\ MapHas(map._map, call.before[2].key)
  /\ IsObject(call.before[1].val)
  /\ ~IsObject(call.before[2].val)
  /\ call.before[1].val.firstAttempt > call.before[2].val.ts
  /\ Len(map._map) = map._maxSize

(* ---------------- adminCache.isAdmin on its own ---------------- *)
(* isAdmin is called for the pairs of two chats and one user, or with an   *)
(* argument that is not an integer (Null); a call that misses the cache is *)
(* suspended at getChatMember while other calls are made. trace[p] is the  *)
(* history of pair p: the latest result stored and the status it came      *)
(* from, the times of the last two getChatMember calls, whether one        *)
(* failed, and whether the latest call that returned failed.               *)
NoHist == [stored |-> Null, invokedAt |-> << >>, failed |-> FALSE, failedLast |-> FALSE]

Require ==
  /\ call.op = "none"
  /\ call' = [NoCall EXCEPT !.op = "require"]
  /\ trace' = [p \in {MAIN_GROUP, OTHER_CHAT} \X {1} |-> NoHist]
  /\ UNCHANGED <<now, ticks, users, configVars, limiterVars, last, historyVars, probe,
                 _cache, tasks, map>>

\* isAdmin without the Number.isInteger validation of its two arguments: a
\* non-integer argument reaches the resolver like any other cache miss.
IsAdminCallUnvalidated ==
  /\ call.op # "none"
  /\ call.n < AdminCalls
  /\ UNCHANGED <<now, ticks, users, configVars, limiterVars, last, historyVars, probe,
                 _cache, map>>
  /\ \E chatId \in {Some(MAIN_GROUP), Some(OTHER_CHAT), Null}, userId \in {Some(1), Null} :
       LET returned(result, invoked, before) ==
             [op |-> "isAdmin", key |-> <<chatId, userId>>, max |-> 0, at |-> now,
              result |-> result, invoked |-> invoked, before |-> before, n |-> call.n + 1,
              cache |-> _cache, after |-> _cache']
           p == <<IdOf(chatId), IdOf(userId)>>
       IN  IF chatId = Null \/ userId = Null
             THEN /\ Suspend(0, NoEvent, 0, 0, 0)
                  /\ call' = returned(FALSE, TRUE, NoHist)
                  /\ UNCHANGED trace
           ELSE IF isAdminSettled(_cache, p[1], p[2])
             THEN /\ call' = returned(isAdminValue(_cache, p[1], p[2]), FALSE, trace[p])
                  /\ trace' = [trace EXCEPT ![p].failedLast = FALSE]
                  /\ UNCHANGED tasks
           ELSE /\ Suspend(0, NoEvent, 0, p[1], p[2])
                /\ call' = returned(FALSE, TRUE, trace[p])
                /\ trace' = [trace EXCEPT ![p].invokedAt = KeepLastTwo(@, now),
                                          ![p].failedLast = FALSE]

IsAdminCall ==
  /\ call.op # "none"
  /\ call.n < AdminCalls
  /\ UNCHANGED <<now, ticks, users, configVars, limiterVars, last, historyVars, probe,
                 _cache, map>>
  /\ \E chatId \in {Some(MAIN_GROUP), Some(OTHER_CHAT), Null}, userId \in {Some(1), Null} :
       LET returned(result, invoked, before) ==
             [op |-> "isAdmin", key |-> <<chatId, userId>>, max |-> 0, at |-> now,
              result |-> result, invoked |-> invoked, before |-> before, n |-> call.n + 1,
              cache |-> _cache, after |-> _cache']
           p == <<IdOf(chatId), IdOf(userId)>>
       IN  IF chatId = Null \/ userId = Null
             THEN /\ call' = returned(FALSE, FALSE, NoHist)
                  /\ UNCHANGED <<tasks, trace>>
           ELSE IF isAdminSettled(_cache, p[1], p[2])
             THEN /\ call' = returned(isAdminValue(_cache, p[1], p[2]), FALSE, trace[p])
                  /\ trace' = [trace EXCEPT ![p].failedLast = FALSE]
                  /\ UNCHANGED tasks
           ELSE /\ Suspend(0, NoEvent, 0, p[1], p[2])
                /\ call' = returned(FALSE, TRUE, trace[p])
                /\ trace' = [trace EXCEPT ![p].invokedAt = KeepLastTwo(@, now),
                                          ![p].failedLast = FALSE]

IsAdminResume ==
  /\ \E s \in DOMAIN tasks, outcome \in {"creator", "member", "error"} :
       /\ tasks[s].pc = "resolving"
       /\ LET p == <<tasks[s].aChat, tasks[s].aUser>>
          IN  /\ _cache' = ResolvedCache(s, outcome)
              /\ call' = [op |-> "resolved", key |-> <<Some(p[1]), Some(p[2])>>, max |-> 0,
                          at |-> now, result |-> ResolvedValue(outcome), invoked |-> TRUE,
                          before |-> trace[p], n |-> call.n, outcome |-> outcome,
                          cache |-> _cache, after |-> _cache']
              /\ trace' = [trace EXCEPT ![p] =
                             IF outcome = "error"
                               THEN [@ EXCEPT !.failed = TRUE, !.failedLast = TRUE]
                               ELSE [@ EXCEPT !.stored = Some([at |-> now, status |-> outcome])]]
       /\ Done(s)
  /\ UNCHANGED <<now, ticks, users, configVars, limiterVars, last, historyVars, probe, map>>

AdminTick ==
  /\ call.op # "none"
  /\ \E d \in {ADMIN_CACHE_MS - 1, ADMIN_CACHE_MS} : Tick(d, AdminTicks)

InitAdmin ==
  /\ InitCommon(GateTasks)
  /\ InitConfigured(TRUE, TRUE)

NextAdmin == Require \/ IsAdminCall \/ IsAdminResume \/ AdminTick \/ PurgeAdmin

SpecAdmin == InitAdmin /\ [][NextAdmin]_vars

(* C17: isAdmin returns true only for integer arguments and only from a    *)
(* getChatMember answer 'creator' or 'administrator' for that pair: the    *)
(* answer to this call, or one stored less than ADMIN_CACHE_MS before it;  *)
(* a failure or any other status gives false                               *)
C17_TrueOnlyFromAdminStatus ==
  /\ (call.op = "isAdmin" /\ ~call.invoked /\ call.result) =>
       /\ call.key[1] # Null
       /\ call.key[2] # Null
       /\ call.before.stored # Null
       /\ IdOf(call.before.stored).status \in {"creator", "administrator"}
       /\ call.at - IdOf(call.before.stored).at < ADMIN_CACHE_MS
  /\ (call.op = "resolved" /\ call.result) => call.outcome \in {"creator", "administrator"}

C17_Witness ==
  /\ call.op = "isAdmin"
  /\ ~call.invoked
  /\ call.result
  /\ IdOf(call.before.stored).status = "creator"
  /\ call.at - IdOf(call.before.stored).at = ADMIN_CACHE_MS - 1
  /\ \E q \in DOMAIN trace :
       /\ <<Some(q[1]), Some(q[2])>> # call.key
       /\ trace[q].stored # Null
       /\ IdOf(trace[q].stored).status = "member"

(* C18: a call for a pair whose latest stored result is less than          *)
(* ADMIN_CACHE_MS old returns that result, true or false, without calling  *)
(* getChatMember; a call made ADMIN_CACHE_MS or more after it, or for a    *)
(* pair with nothing stored, calls getChatMember                           *)
C18_CachedWithinTtl ==
  (call.op = "isAdmin" /\ call.key[1] # Null /\ call.key[2] # Null) =>
    IF call.before.stored # Null /\ call.at < IdOf(call.before.stored).at + ADMIN_CACHE_MS
      THEN /\ ~call.invoked
           /\ call.result <=> IdOf(call.before.stored).status \in {"creator", "administrator"}
      ELSE call.invoked

C18_Witness ==
  /\ call.op = "isAdmin"
  /\ ~call.invoked
  /\ ~call.result
  /\ call.before.stored # Null
  /\ IdOf(call.before.stored).status = "member"
  /\ call.at = IdOf(call.before.stored).at + ADMIN_CACHE_MS - 1

(* C19: when getChatMember never fails for a pair, two getChatMember calls *)
(* for that pair are made by isAdmin calls at least ADMIN_CACHE_MS apart   *)
(* (two isAdmin calls within ADMIN_CACHE_MS of each other cause one)       *)
C19_OneInvocationWithinTtl ==
  \A p \in DOMAIN trace :
    ( /\ Len(trace[p].invokedAt) = 2
      /\ ~trace[p].failed
      /\ \A s \in DOMAIN tasks :
           tasks[s].pc = "resolving" => <<tasks[s].aChat, tasks[s].aUser>> # p ) =>
      trace[p].invokedAt[2] - trace[p].invokedAt[1] >= ADMIN_CACHE_MS

C21_NonIntegerArgsRejected ==
  (call.op = "isAdmin" /\ (call.key[1] = Null \/ call.key[2] = Null)) =>
    /\ ~call.result
    /\ ~call.invoked
    /\ call.after = call.cache

\* A non-integer call made while the cache holds an entry and no lookup is in flight.
C21_Witness ==
  /\ call.op = "isAdmin"
  /\ call.key[1] = Null
  /\ call.key[2] # Null
  /\ call.cache # << >>
  /\ \A s \in DOMAIN tasks : tasks[s].pc = "idle"


(* ---------------- the welcome handler under a running clock ----------- *)
WelcomeTick ==
  /\ last = NoObs
  /\ \E d \in {1, WELCOME_COOLDOWN_MS - 1} : Tick(d, GateTicks)

(* the handler run is taken off; the time of a run that sent a welcome is *)
(* kept, the last two of them                                              *)
WelcomeObserved ==
  /\ last # NoObs
  /\ last' = NoObs
  /\ trace' = IF last.replies # << >> THEN KeepLastTwo(trace, last.at) ELSE trace
  /\ UNCHANGED <<now, ticks, users, configVars, _cache, limiterVars, tasks, historyVars,
                 probe, map, call>>

NextWelcome == FlowJoin \/ WelcomeTick \/ PurgeWelcome \/ WelcomeObserved

SpecWelcome == InitGate /\ [][NextWelcome]_vars

\* C22: after a join event in the main group every joining member that is not
\* a bot has a user record (a record created by the event is not introduced, an
\* existing record keeps its status), whether or not the event is a mass join
\* and whether or not the welcome limiter is limited; a bot member gets no
\* record and no welcome; a join event in any other chat changes no record,
\* sends no reply and leaves the welcome limiter as it was.
C22_JoinRecordsEveryHuman ==
  [][(last = NoObs /\ last'.handler = "welcome") =>
       LET ev == last'.ev
           members == ev.new_chat_members
           humans == {members[i].id : i \in {j \in DOMAIN members : ~members[j].is_bot}}
       IN  IF Some(ev.chat) = mainGroupId
             THEN /\ \A u \in humans :
                       /\ HasUser(users', u)
                       /\ ~HasUser(users, u) => ~users'[u].introduced
                  /\ \A u \in UserIds \ humans : HasUser(users', u) <=> HasUser(users, u)
                  /\ \A u \in DOMAIN users : users'[u].introduced = users[u].introduced
                  /\ Len(last'.replies) <= Cardinality(humans)
           ELSE /\ users' = users
                /\ last'.replies = << >>
                /\ welcomeCooldowns' = welcomeCooldowns]_vars

\* A bot and a human joined the main group together while the limiter was
\* limited: no welcome, a record for the human, none for the bot.
C22_Witness ==
  /\ last.handler = "welcome"
  /\ last.applied
  /\ last.ev.new_chat_members = <<[id |-> MaxUsers, is_bot |-> TRUE], [id |-> 1, is_bot |-> FALSE]>>
  /\ last.replies = << >>
  /\ HasUser(users, 1)
  /\ ~users[1].introduced
  /\ ~HasUser(users, MaxUsers)

\* C23: a join event in the main group sends a welcome exactly when it is not
\* a mass join (at most MAX_NEW_MEMBERS_PER_EVENT members), a member that is
\* not a bot joins and the welcome limiter of the chat is not limited at that
\* moment; it then sends one welcome, for the first such member, and touches
\* the limiter; an event that sends no welcome leaves the limiter as it was;
\* two successive welcomes are at least WELCOME_COOLDOWN_MS apart.
C23_WelcomeOncePerWindow ==
  [][/\ (last = NoObs /\ last'.handler = "welcome" /\ Some(last'.ev.chat) = mainGroupId) =>
          LET ev == last'.ev
              members == ev.new_chat_members
              humans == {members[i].id : i \in {j \in DOMAIN members : ~members[j].is_bot}}
              sends == /\ Len(members) <= MAX_NEW_MEMBERS_PER_EVENT
                       /\ humans # {}
                       /\ ~isLimited(welcomeCooldowns, ev.chat, now)
          IN  /\ last'.replies = IF sends THEN <<"welcome">> ELSE << >>
              /\ sends => /\ MapHas(welcomeCooldowns'._map, ev.chat)
                          /\ MapGet(welcomeCooldowns'._map, ev.chat).ts = now
                          /\ isLimited(welcomeCooldowns', ev.chat, now)
              /\ ~sends => welcomeCooldowns' = welcomeCooldowns
     /\ Len(trace') = 2 => trace'[2] - trace'[1] >= WELCOME_COOLDOWN_MS]_vars

\* A welcome was sent, and exactly one window later a batch of two humans is
\* welcomed once.
C23_Witness ==
  /\ Len(trace) = 1
  /\ last.handler = "welcome"
  /\ Len(last.ev.new_chat_members) = 2
  /\ \A i \in 1..2 : ~last.ev.new_chat_members[i].is_bot
  /\ last.replies = <<"welcome">>
  /\ last.at - trace[1] = WELCOME_COOLDOWN_MS


(* ---------------- the commands, handled one at a time ----------------- *)
(* commands in the main group, in another group and in the intro channel,  *)
(* setup commands in a private chat, and commands of a channel post, which *)
(* has no sender                                                            *)
CommandEvents ==
  Commands({"approve", "reset"}, {MAIN_GROUP, OTHER_CHAT}, FlowSenders,
           ArgTargets(UserIds) \cup OddTargets)
  \cup Commands({"status", "pending"}, {MAIN_GROUP, OTHER_CHAT}, FlowSenders, ArgTargets({1}))
  \cup Commands(SetupCommands, {MAIN_GROUP, OTHER_CHAT, INTRO_CHANNEL}, FlowSenders,
                ArgTargets({}))
  \cup {[ev EXCEPT !.chatType = "private", !.chat = ev.from] :
          ev \in Commands(SetupCommands, {0}, FlowSenders, ArgTargets({}))}
  \cup {[ev EXCEPT !.hasFrom = FALSE, !.from = 0] :
          ev \in Commands({"approve", "setgroup"}, {MAIN_GROUP}, {1}, ArgTargets({1}))}

(* a command is dispatched when no earlier command is waiting for getChatMember *)
OneCommand ==
  /\ last = NoObs
  /\ FreeSlots = DOMAIN tasks
  /\ \E ev \in CommandEvents : Command(ev)

(* startup: each id comes from the environment, or from the saved setting, *)
(* or is not configured; the users table is empty or holds an introduction  *)
(* of an earlier run                                                        *)
InitCommands ==
  /\ now = 0
  /\ ticks = 0
  /\ users \in {<< >>, StoredIntroduced(1)}
  /\ _cache = << >>
  /\ reminderCooldowns = CooldownMap(REMINDER_COOLDOWN_MS, 0)
  /\ introRateLimiter = CooldownMap(INTRO_RATE_LIMIT_WINDOW_MS, 0)
  /\ welcomeCooldowns = CooldownMap(WELCOME_COOLDOWN_MS, 0)
  /\ tasks = [s \in 1..FlowTasks |-> Idle]
  /\ last = NoObs
  /\ reminderLog = [u \in UserIds |-> << >>]
  /\ attempts = [u \in UserIds |-> << >>]
  /\ probe = NoProbe
  /\ map = CooldownMap(TEST_WINDOW_MS, 0)
  /\ call = NoCall
  /\ trace = << >>
  /\ mainGroupFromEnv \in BOOLEAN
  /\ introChannelFromEnv \in BOOLEAN
  /\ settings \in [MAIN_GROUP_ID : {Null, Some(MAIN_GROUP)},
                    INTRO_CHANNEL_ID : {Null, Some(INTRO_CHANNEL)}]
  /\ mainGroupFromEnv => settings.MAIN_GROUP_ID = Null
  /\ introChannelFromEnv => settings.INTRO_CHANNEL_ID = Null
  /\ mainGroupId = IF mainGroupFromEnv THEN Some(MAIN_GROUP) ELSE settings.MAIN_GROUP_ID
  /\ introChannelId = IF introChannelFromEnv THEN Some(INTRO_CHANNEL)
                                              ELSE settings.INTRO_CHANNEL_ID

NextCommands == OneCommand \/ FlowManageResume \/ FlowSetupResume \/ Observed

SpecCommands == InitCommands /\ [][NextCommands]_vars

\* C24: /approve, /reset, /status and /pending change a user record or send a
\* reply only when the command is issued in the configured main group by a
\* sender whom the resolver reports as an administrator of the main group; in
\* every other case (another chat, a sender who is not an administrator, a
\* failed lookup, no main group configured, no sender) the users table and the
\* configuration are unchanged and no reply is sent.
C24_ManagementNeedsMainGroupAdmin ==
  [][/\ (last = NoObs /\ last'.handler \in ManageCommands) =>
          LET ev == last'.ev
              authorised == /\ mainGroupId # Null
                            /\ Some(ev.chat) = mainGroupId
                            /\ ev.hasFrom
                            /\ isAdminSettled(_cache', ev.chat, ev.from)
                            /\ isAdminValue(_cache', ev.chat, ev.from)
          IN  /\ ~authorised => (users' = users /\ last'.replies = << >>)
              /\ authorised => last'.replies # << >>
              /\ UNCHANGED configVars
     /\ users' # users => last'.handler \in ManageCommands]_vars

\* /reset by a sender whom the resolver reported as no administrator, for a
\* target with an introduced record: no reply, the record as it was.
C24_Witness ==
  /\ last.handler = "reset"
  /\ Some(last.ev.chat) = mainGroupId
  /\ last.ev.arg = ArgInt(1)
  /\ isAdminSettled(_cache, last.ev.chat, last.ev.from)
  /\ ~isAdminValue(_cache, last.ev.chat, last.ev.from)
  /\ last.replies = << >>
  /\ HasUser(users, 1)
  /\ users[1].introduced

\* C25: an authorised /approve whose target resolves (the author of the
\* replied-to message when that author is not a bot, else a positive integer
\* argument) leaves the target with a record that is introduced and has no
\* intro message id, whatever the target's record was before (none, pending,
\* introduced), and leaves every other record alone; with no resolvable target
\* it replies with the usage hint and changes nothing.
C25_ApproveIntroducesTarget ==
  [][(last = NoObs /\ last'.handler = "approve" /\ last'.replies # << >>) =>
       LET ev == last'.ev
           byReply == ev.reply_to # Null /\ IdOf(ev.reply_to).hasFrom /\ ~IdOf(ev.reply_to).is_bot
           byArg == ev.reply_to = Null /\ ev.arg # Null /\ IdOf(ev.arg).isInt /\ IdOf(ev.arg).n > 0
           t == IF byReply THEN IdOf(ev.reply_to).id ELSE IdOf(ev.arg).n
       IN  IF byReply \/ byArg
             THEN /\ HasUser(users', t)
                  /\ users'[t].introduced
                  /\ users'[t].intro_msg_id = Null
                  /\ DOMAIN users' = DOMAIN users \cup {t}
                  /\ \A u \in DOMAIN users \ {t} : users'[u] = users[u]
                  /\ last'.replies = <<"approved">>
           ELSE /\ users' = users
                /\ last'.replies = <<"usage">>]_vars

\* /approve of a user whose stored introduction had an intro message id.
C25_Witness ==
  /\ last.handler = "approve"
  /\ last.replies = <<"approved">>
  /\ last.wasIntroduced
  /\ last.ev.reply_to # Null
  /\ last.target = Some(MaxUsers)
  /\ \A u \in UserIds : HasUser(users, u) /\ users[u].introduced /\ users[u].intro_msg_id = Null
  /\ users[1].username # Null

\* C27: with commands handled one at a time, /setgroup (resp. /setintro)
\* changes the configured main group (resp. intro channel) or its saved
\* setting only to the current chat, and only if the chat is not private, the
\* resolver reports the sender as an administrator of the current chat, the id
\* does not come from the environment and, when a different chat is configured
\* for that role, the resolver also reports the sender as an administrator of
\* the configured main group (for /setintro a main group must then be
\* configured); nothing else changes the configuration.
C27_SetupNeedsAuthority ==
  [][LET ev == last'.ev
         admin(chat) == /\ ev.hasFrom
                        /\ isAdminSettled(_cache', chat, ev.from)
                        /\ isAdminValue(_cache', chat, ev.from)
     IN  /\ (mainGroupId' # mainGroupId \/ settings'.MAIN_GROUP_ID # settings.MAIN_GROUP_ID) =>
              /\ last = NoObs
              /\ last'.handler = "setgroup"
              /\ ev.chatType # "private"
              /\ admin(ev.chat)
              /\ ~mainGroupFromEnv
              /\ (mainGroupId # Null /\ mainGroupId # Some(ev.chat)) => admin(IdOf(mainGroupId))
              /\ mainGroupId' = Some(ev.chat)
              /\ settings'.MAIN_GROUP_ID = Some(ev.chat)
         /\ (introChannelId' # introChannelId
                \/ settings'.INTRO_CHANNEL_ID # settings.INTRO_CHANNEL_ID) =>
              /\ last = NoObs
              /\ last'.handler = "setintro"
              /\ ev.chatType # "private"
              /\ admin(ev.chat)
              /\ ~introChannelFromEnv
              /\ (introChannelId # Null /\ introChannelId # Some(ev.chat)) =>
                    (mainGroupId # Null /\ admin(IdOf(mainGroupId)))
              /\ introChannelId' = Some(ev.chat)
              /\ settings'.INTRO_CHANNEL_ID = Some(ev.chat)
         /\ UNCHANGED <<mainGroupFromEnv, introChannelFromEnv>>]_vars

\* The main group was re-assigned to another chat by an administrator of both.
C27_Witness ==
  /\ last.handler = "setgroup"
  /\ last.applied
  /\ last.ev.chat = OTHER_CHAT
  /\ mainGroupId = Some(OTHER_CHAT)
  /\ settings.MAIN_GROUP_ID = Some(OTHER_CHAT)
  /\ \A chat \in {MAIN_GROUP, OTHER_CHAT} :
       /\ isAdminSettled(_cache, chat, last.ev.from)
       /\ isAdminValue(_cache, chat, last.ev.from)

\* C28: when the main group id (resp. intro channel id) came from the
\* environment at startup, no step changes the configured id or writes its
\* saved setting.
C28_EnvironmentIdsLocked ==
  [][/\ mainGroupFromEnv =>
          (mainGroupId' = mainGroupId /\ settings'.MAIN_GROUP_ID = settings.MAIN_GROUP_ID)
     /\ introChannelFromEnv =>
          (introChannelId' = introChannelId
             /\ settings'.INTRO_CHANNEL_ID = settings.INTRO_CHANNEL_ID)]_vars

\* /setgroup in another chat, by an administrator of that chat and of the main
\* group, refused because the id comes from the environment.
C28_Witness ==
  /\ mainGroupFromEnv
  /\ last.handler = "setgroup"
  /\ last.ev.chat = OTHER_CHAT
  /\ last.replies = <<"locked">>
  /\ mainGroupId = Some(MAIN_GROUP)
  /\ settings.MAIN_GROUP_ID = Null
  /\ \A chat \in {MAIN_GROUP, OTHER_CHAT} :
       /\ isAdminSettled(_cache, chat, last.ev.from)
       /\ isAdminValue(_cache, chat, last.ev.from)


(* ---------------- /reset and /approve against the gatekeeper ---------- *)
(* another user, whom the resolver may report as an administrator, resets *)
(* or approves the sender, or names a target that does not resolve; no    *)
(* one joins or posts an intro, so that a pending record is a reset one    *)
ResetCommand ==
  /\ last = NoObs
  /\ \E ev \in Commands({"reset", "approve"}, {MAIN_GROUP}, {MaxUsers},
                         ArgTargets(GateSenders) \cup OddTargets) : Command(ev)

NextReset ==
  ResetCommand \/ FlowManageResume \/ GateMessage \/ GateResume \/ Observed

SpecReset == InitGate /\ [][NextReset]_vars

C30_IntroChannelNotGatekept ==
  [][(last = NoObs /\ last' # NoObs /\ last'.ev.kind = "message") =>
       LET ev == last'.ev
       IN  /\ Some(ev.chat) = introChannelId =>
                /\ last'.handler = "intro"
                /\ ~last'.introNext
                /\ ~last'.nextCalled
                /\ ~last'.deleted
                /\ \A i \in DOMAIN last'.replies : last'.replies[i] # "reminder"
                /\ UNCHANGED <<tasks, reminderCooldowns, reminderLog, _cache>>
           /\ (Some(ev.chat) # introChannelId /\ Some(ev.chat) # mainGroupId) =>
                /\ last'.introNext
                /\ last'.nextCalled
                /\ ~last'.deleted
                /\ last'.replies = << >>
                /\ UNCHANGED <<users, limiterVars, configVars, _cache, tasks, historyVars>>]_vars

\* A sender with a pending record, nudged in the intro channel, has posted in
\* another chat and the message was passed on.
C30_Witness ==
  /\ last.ev.kind = "message"
  /\ last.ev.chat = OTHER_CHAT
  /\ last.nextCalled
  /\ HasUser(users, last.ev.from)
  /\ ~users[last.ev.from].introduced
  /\ MapHas(introRateLimiter._map, last.ev.from)


(* ---------------- rejected reply and delete calls --------------------- *)
(* A rejection with no handler attached ends the process; the restarted    *)
(* process has the database and fresh limiters, cache and handlers.        *)
RejectedUnhandled ==
  /\ last.handler \notin {"none", "console.error"}
  /\ last.deleted \/ last.replies # << >>
  /\ last' = [last EXCEPT !.handler = "console.error"]
  /\ tasks' = [s \in DOMAIN tasks |-> Idle]
  /\ _cache' = << >>
  /\ reminderCooldowns' = CooldownMap(REMINDER_COOLDOWN_MS, 0)
  /\ introRateLimiter' = CooldownMap(INTRO_RATE_LIMIT_WINDOW_MS, 0)
  /\ welcomeCooldowns' = CooldownMap(WELCOME_COOLDOWN_MS, 0)
  /\ UNCHANGED <<now, ticks, users, configVars, historyVars, probe, map, call, trace>>

(* The promise of a ctx.reply or ctx.deleteMessage issued by the last run  *)
(* rejects. Every such promise has a catch handler attached (logError, the *)
(* .catch of the reminder and of ephemeralReply), which writes to the      *)
(* console; the handler run itself ended when it issued the call.          *)
Rejected ==
  /\ last.handler \notin {"none", "console.error"}
  /\ last.deleted \/ last.replies # << >>
  /\ last' = [last EXCEPT !.handler = "console.error"]
  /\ UNCHANGED <<now, ticks, users, configVars, _cache, limiterVars, tasks, historyVars,
                 probe, map, call, trace>>

NextFailure ==
  \/ FlowMessage
  \/ FlowCommand
  \/ FlowJoin
  \/ FlowGatekeeperResume
  \/ FlowManageResume
  \/ FlowSetupResume
  \/ Rejected
  \/ Observed

SpecFailure == Init /\ [][NextFailure]_vars

\* C29: when a reply or delete call of a handler run fails, the failure is
\* logged and everything the run committed stays as it is (users,
\* configuration, limiters, admin cache), and the handler runs in progress
\* continue: an accepted intro stays introduced, the sender of a deleted
\* message stays limited for reminders with the reminder issued, the target of
\* /approve stays introduced and the target of /reset stays pending.
C29_FailuresChangeNothing ==
  [][(last.handler # "console.error" /\ last'.handler = "console.error") =>
       /\ UNCHANGED <<users, configVars, limiterVars, _cache, tasks>>
       /\ (last.handler = "intro" /\ last.replies = <<"accepted">>) =>
            Introduced(users', last.ev.from)
       /\ (last.handler = "gatekeeper" /\ last.deleted) =>
            /\ isLimited(reminderCooldowns', last.ev.from, now)
            /\ last.limited \/ last.replies = <<"reminder">>
       /\ (last.handler = "approve" /\ last.applied) =>
            Introduced(users', IdOf(last.target))
       /\ (last.handler = "reset" /\ last.applied) =>
            /\ HasUser(users', IdOf(last.target))
            /\ ~Introduced(users', IdOf(last.target))]_vars

\* The reply to an accepted intro has failed while a sender who was reminded
\* in the main group is introduced by it and another handler run waits for
\* getChatMember.
C29_Witness ==
  /\ last.handler = "console.error"
  /\ last.replies = <<"accepted">>
  /\ Introduced(users, last.ev.from)
  /\ users[last.ev.from].intro_msg_id # Null
  /\ \E s \in DOMAIN tasks : tasks[s].pc = "resolving"
  /\ reminderCooldowns._map # << >>


(* ---------------- db.js settings, called directly --------------------- *)
(* setSetting(key, value): the allow-list test, then the upsert of         *)
(* String(value); `trace` keeps, per key, the value of the last setSetting *)
(* that returned                                                            *)
SetSettingCall ==
  /\ call.n < SettingCalls
  /\ \E key \in {"MAIN_GROUP_ID", "INTRO_CHANNEL_ID", "INVALID_KEY", ""},
        value \in {MAIN_GROUP, OTHER_CHAT} :
       LET VALID_SETTING_KEYS == {"MAIN_GROUP_ID", "INTRO_CHANNEL_ID"}
           threw == key \notin VALID_SETTING_KEYS
       IN  /\ settings' = IF threw THEN settings
                                   ELSE [settings EXCEPT ![key] = Some(ToString(value))]
           /\ trace' = IF threw THEN trace ELSE (key :> Some(ToString(value))) @@ trace
           /\ call' = [op |-> "setSetting", key |-> key, threw |-> threw, returned |-> Null,
                       before |-> settings, after |-> settings', n |-> call.n + 1]
  /\ UNCHANGED <<now, ticks, users, mainGroupId, introChannelId, mainGroupFromEnv,
                 introChannelFromEnv, _cache, limiterVars, tasks, last, historyVars, probe, map>>

(* getSetting(key): the row's value, or null when there is no row *)
GetSettingCall ==
  /\ call.n < SettingCalls
  /\ \E key \in {"MAIN_GROUP_ID", "INTRO_CHANNEL_ID", "INVALID_KEY", ""} :
       LET row == IF key \in DOMAIN settings THEN settings[key] ELSE Null
       IN  call' = [op |-> "getSetting", key |-> key, threw |-> FALSE, returned |-> row,
                    before |-> settings, after |-> settings, n |-> call.n + 1]
  /\ UNCHANGED <<now, ticks, users, configVars, _cache, limiterVars, tasks, last,
                 historyVars, probe, map, trace>>

SpecSettings == Init /\ [][SetSettingCall \/ GetSettingCall]_vars

\* C31: getSetting and setSetting accept only the keys MAIN_GROUP_ID and
\* INTRO_CHANNEL_ID: a call of either with another key fails with an
\* invalid-key error and leaves the stored settings unchanged; getSetting of
\* an accepted key returns the value of the last setSetting of that key that
\* succeeded, as a string, or null if there was none.
C31_SettingsAllowListed ==
  call.op \in {"getSetting", "setSetting"} =>
    IF call.key \notin {"MAIN_GROUP_ID", "INTRO_CHANNEL_ID"}
      THEN call.threw /\ call.after = call.before
    ELSE /\ ~call.threw
         /\ call.op = "getSetting" =>
              call.returned = IF call.key \in DOMAIN trace THEN trace[call.key] ELSE Null


(* C35: touch of a key the map already holds only refreshes that key's     *)
(* timestamp: every other key stays with its entry and the size is the     *)
(* same, also when the map holds maxSize entries                           *)
C35_TouchPresentKeyEvictsNothing ==
  (call.op = "touch" /\ MapHas(call.before, call.key)) =>
    /\ MapGet(map._map, call.key) = [ts |-> call.at]
    /\ Len(map._map) = Len(call.before)
    /\ \A k \in MapKeys \ {call.key} :
         /\ MapHas(map._map, k) <=> MapHas(call.before, k)
         /\ MapHas(map._map, k) => MapGet(map._map, k) = MapGet(call.before, k)

(* C34: started with the main group and the intro channel unset or         *)
(* different, no sequence of /setgroup and /setintro makes the configured  *)
(* main group and the configured intro channel the same chat               *)
C34_MainAndIntroDiffer ==
  (mainGroupId # Null /\ introChannelId # Null) => mainGroupId # introChannelId

(* C36: a text in the intro channel from a user whose record is introduced *)
(* gets no reply and leaves the users table as it was, whether or not the  *)
(* text is a valid introduction; an acceptance is therefore only ever      *)
(* given to a sender not introduced before it, and the intro handler never *)
(* changes an introduced record, so markIntroduced is applied to a user at *)
(* most once while no reset intervenes                                     *)
C36_IntroducedIsFinal ==
  [][ /\ \A u \in DOMAIN users : users[u].introduced =>
             (u \in DOMAIN users' /\ users'[u] = users[u])
      /\ (last = NoObs /\ IsIntroText(last')) =>
           LET u == last'.ev.from
               was == HasUser(users, u) /\ users[u].introduced
           IN  /\ was => /\ last'.replies = << >>
                         /\ ~last'.applied
                         /\ users' = users
               /\ (last'.applied \/ last'.replies = <<"accepted">>) =>
                    /\ ~was
                    /\ users'[u].introduced
                    /\ users'[u].intro_msg_id = Some(last'.ev.message_id) ]_vars

C36_Witness ==
  /\ IsIntroText(last)
  /\ last.wasIntroduced
  /\ ~last.limited
  /\ isValidIntro(TextOf(last.ev))
  /\ last.replies = << >>
  /\ users[last.ev.from].intro_msg_id # Some(last.ev.message_id)

(* C37: a message without text in the intro channel creates or changes no  *)
(* record and is not counted by the intro rate limiter; it gets exactly    *)
(* one nudge when the sender has a record that is not introduced and no    *)
(* reply otherwise; a message whose sender id is the chat id gets no       *)
(* reply and changes neither the users table nor any limiter               *)
C37_MediaNeverRecorded ==
  [][ (last = NoObs /\ last'.handler = "intro" /\ last'.ev.hasFrom) =>
        LET ev == last'.ev
            u == ev.from
        IN  /\ (u # ev.chat /\ ev.text = Null) =>
                 /\ users' = users
                 /\ introRateLimiter' = introRateLimiter
                 /\ last'.replies = IF HasUser(users, u) /\ ~users[u].introduced
                                      THEN <<"media_nudge">> ELSE << >>
            /\ u = ev.chat =>
                 /\ last'.replies = << >>
                 /\ UNCHANGED <<users, limiterVars>> ]_vars

C37_Witness ==
  /\ last.handler = "intro"
  /\ last.ev.hasFrom
  /\ last.ev.from # last.ev.chat
  /\ last.ev.text = Null
  /\ last.replies = <<"media_nudge">>
  /\ HasUser(users, last.ev.from)
  /\ ~users[last.ev.from].introduced
  /\ MapGet(introRateLimiter._map, last.ev.from).count = 1

(* ---------------- purges of a map without maxSize ---------------- *)
SpecPurge ==
  Init /\ [][ \/ (Construct /\ map'._maxSize = 0)
              \/ TouchCall \/ IsLimitedCall \/ IncrementCall \/ PurgeCall
              \/ MapTick ]_vars

(* C38: on a map without maxSize a purge cannot be observed. For the map   *)
(* of every reached state and its purged copy: isLimited and increment     *)
(* return the same for every key, the entries still inside their window    *)
(* are the same after a touch or an increment, and they are the same at    *)
(* later times; as the returned values depend on those entries only, a     *)
(* run with purges returns what the run without them returns               *)
C38_PurgeUnobservable ==
  (call.op # "none" /\ map._maxSize = 0) =>
    LET p == _purge(map, now)
        anchor(val) == IF IsObject(val) THEN val.firstAttempt ELSE val.ts
        Live(cm, t) == {cm._map[i] : i \in {j \in 1..Len(cm._map) :
                                             t - anchor(cm._map[j].val) <= cm._windowMs}}
    IN  /\ \A k \in MapKeys :
             /\ isLimited(map, k, now) = isLimited(p, k, now)
             /\ \A max \in {0, 1} :
                  incrementExceeded(map, k, max, now) = incrementExceeded(p, k, max, now)
             /\ Live(touch(map, k, now), now) = Live(touch(p, k, now), now)
             /\ Live(incrementMap(map, k, now), now) = Live(incrementMap(p, k, now), now)
        /\ \A t \in {now, now + 1, now + TEST_WINDOW_MS} : Live(map, t) = Live(p, t)

C38_Witness ==
  /\ call.op = "_purge"
  /\ map._maxSize = 0
  /\ Len(map._map) < Len(call.before)
  /\ \E k \in MapKeys :
       /\ MapHas(map._map, k)
       /\ IsObject(MapGet(map._map, k))
       /\ now - MapGet(map._map, k).firstAttempt = map._windowMs
       /\ incrementExceeded(map, k, 1, now)
  /\ \E k \in MapKeys :
       /\ MapHas(call.before, k)
       /\ ~MapHas(map._map, k)
       /\ ~IsObject(MapGet(call.before, k))

REMINDER_AUTO_DELETE_MS == 15000

(* a settle that gives the limiter entry back when the delivery failed *)
DeliverySettlesReleases ==
  /\ last.handler \in {"gatekeeper", "welcome"}
  /\ last.replies # << >>
  /\ \E ok \in BOOLEAN, id \in {1, MaxMsgId} :
       /\ trace' = IF ok /\ last.handler = "gatekeeper"
                     THEN Append(trace, [chat |-> last.ev.chat, message_id |-> id,
                                         due |-> now + REMINDER_AUTO_DELETE_MS])
                     ELSE trace
       /\ call' = [op |-> IF ok THEN "then" ELSE "catch", kind |-> last.replies[1],
                   chat |-> last.ev.chat, user |-> last.ev.from, at |-> last.at,
                   message_id |-> id, failed |-> ~ok]
       /\ reminderCooldowns' = IF ~ok /\ last.handler = "gatekeeper"
                                 THEN [reminderCooldowns EXCEPT
                                         !._map = MapDelete(@, last.ev.from)]
                                 ELSE reminderCooldowns
       /\ welcomeCooldowns' = IF ~ok /\ last.handler = "welcome"
                                THEN [welcomeCooldowns EXCEPT
                                        !._map = MapDelete(@, last.ev.chat)]
                                ELSE welcomeCooldowns
  /\ last' = NoObs
  /\ UNCHANGED <<now, ticks, users, configVars, _cache, introRateLimiter, tasks, historyVars,
                 probe, map>>

(* a settle whose timer was started when the reply was issued *)
DeliverySettlesSchedulesAlways ==
  /\ last.handler \in {"gatekeeper", "welcome"}
  /\ last.replies # << >>
  /\ \E ok \in BOOLEAN, id \in {1, MaxMsgId} :
       /\ trace' = IF last.handler = "gatekeeper"
                     THEN Append(trace, [chat |-> last.ev.chat, message_id |-> id,
                                         due |-> last.at + REMINDER_AUTO_DELETE_MS])
                     ELSE trace
       /\ call' = [op |-> IF ok THEN "then" ELSE "catch", kind |-> last.replies[1],
                   chat |-> last.ev.chat, user |-> last.ev.from, at |-> last.at,
                   message_id |-> id, failed |-> ~ok]
  /\ last' = NoObs
  /\ UNCHANGED <<now, ticks, users, configVars, _cache, limiterVars, tasks, historyVars,
                 probe, map>>

(* The promise of the ctx.reply issued by the run in `last` settles, at    *)
(* the time of issue or later: the reminder's .then starts the timer with  *)
(* the id of the delivered message, its .catch and the welcome's logError  *)
(* only log. trace is the list of timers waiting; call is the latest       *)
(* settle or timer run.                                                    *)
DeliverySettles ==
  /\ last.handler \in {"gatekeeper", "welcome"}
  /\ last.replies # << >>
  /\ \E ok \in BOOLEAN, id \in {1, MaxMsgId} :
       /\ trace' = IF ok /\ last.handler = "gatekeeper"
                     THEN Append(trace, [chat |-> last.ev.chat, message_id |-> id,
                                         due |-> now + REMINDER_AUTO_DELETE_MS])
                     ELSE trace
       /\ call' = [op |-> IF ok THEN "then" ELSE "catch", kind |-> last.replies[1],
                   chat |-> last.ev.chat, user |-> last.ev.from, at |-> last.at,
                   message_id |-> id, failed |-> ~ok]
  /\ last' = NoObs
  /\ UNCHANGED <<now, ticks, users, configVars, _cache, limiterVars, tasks, historyVars,
                 probe, map>>

(* The timer due first runs, at its due time or later: it asks for the     *)
(* deletion of the reminder it was started for, and the outcome of that    *)
(* request is dropped by .catch(() => {}).                                 *)
ReminderTimer ==
  /\ \E i \in DOMAIN trace, failed \in BOOLEAN :
       /\ \A j \in DOMAIN trace : trace[i].due <= trace[j].due
       /\ now' = IF now < trace[i].due THEN trace[i].due ELSE now
       /\ trace' = SubSeq(trace, 1, i - 1) \o SubSeq(trace, i + 1, Len(trace))
       /\ call' = [op |-> "deleteMessage", kind |-> "reminder", chat |-> trace[i].chat,
                   user |-> 0, at |-> now', message_id |-> trace[i].message_id,
                   failed |-> failed]
  /\ UNCHANGED <<ticks, users, configVars, _cache, limiterVars, tasks, last, historyVars,
                 probe, map>>

(* one sender's messages in the main group, handled one at a time, joins   *)
(* of that sender, the clock, the settles and the timers                   *)
SpecDelivery ==
  InitGate /\ [][ \/ /\ last = NoObs
                     /\ FreeSlots = DOMAIN tasks
                     /\ \E ev \in {e \in GateEvents : e.chat = MAIN_GROUP /\ ~e.is_bot} :
                          Message(ev, FALSE, FlowAttempts)
                  \/ GateResume
                  \/ GateJoin
                  \/ \E d \in GateSteps : Tick(d, GateTicks - 1)
                  \/ DeliverySettles
                  \/ ReminderTimer
                  \/ (last.replies = << >> /\ Observed) ]_vars

FairSpecDelivery == SpecDelivery /\ WF_vars(ReminderTimer)

(* C32: a timer is started only when the reply of a reminder has been      *)
(* delivered, for the delivered message and the auto-delete delay counted  *)
(* from the delivery; a reminder whose delivery failed and a welcome start *)
(* none; the timer's run, at its due time or later, requests the deletion  *)
(* of exactly that message in that chat and changes nothing else, whether  *)
(* or not the request fails; and every timer started does run              *)
C32_ReminderAutoDeleted ==
  /\ [][ /\ (last.replies # << >> /\ last' = NoObs) =>
              trace' = IF last.replies = <<"reminder">> /\ ~call'.failed
                         THEN Append(trace, [chat |-> last.ev.chat,
                                             message_id |-> call'.message_id,
                                             due |-> now + REMINDER_AUTO_DELETE_MS])
                         ELSE trace
         /\ Len(trace') > Len(trace) =>
              /\ last.replies = <<"reminder">>
              /\ last' = NoObs
              /\ now >= last.at
         /\ Len(trace') < Len(trace) =>
              \E i \in DOMAIN trace :
                /\ trace' = SubSeq(trace, 1, i - 1) \o SubSeq(trace, i + 1, Len(trace))
                /\ call'.op = "deleteMessage"
                /\ call'.chat = trace[i].chat
                /\ call'.message_id = trace[i].message_id
                /\ now' >= trace[i].due
                /\ UNCHANGED <<users, configVars, limiterVars, _cache, tasks, last>> ]_vars
  /\ \A id \in MsgIds :
       (\E i \in DOMAIN trace : trace[i].message_id = id)
         ~> (call.op = "deleteMessage" /\ call.message_id = id)

C32_Witness ==
  /\ call.op = "deleteMessage"
  /\ call.failed
  /\ call.message_id = MaxMsgId
  /\ Len(trace) = 1
  /\ trace[1].message_id # call.message_id
  /\ now < trace[1].due

(* C40: the run that issues a reminder or a welcome has touched the        *)
(* limiter in the same step, at the time of issue; the settle of the       *)
(* reply, delivered or failed, changes no limiter and issues nothing       *)
(* again; so after a failed reminder the pending sender's main-group       *)
(* messages inside the reminder window are deleted with no reminder, and   *)
(* after a failed welcome a join inside the welcome window gets no welcome *)
C40_FailedReplyStillLimits ==
  [][ /\ (last = NoObs /\ last'.replies = <<"reminder">>) =>
           /\ MapHas(reminderCooldowns'._map, last'.ev.from)
           /\ MapGet(reminderCooldowns'._map, last'.ev.from) = [ts |-> now]
      /\ (last = NoObs /\ last'.handler = "welcome" /\ last'.replies # << >>) =>
           /\ MapHas(welcomeCooldowns'._map, last'.ev.chat)
           /\ MapGet(welcomeCooldowns'._map, last'.ev.chat) = [ts |-> now]
      /\ (last.replies # << >> /\ last' = NoObs) =>
           /\ call'.op = IF call'.failed THEN "catch" ELSE "then"
           /\ UNCHANGED <<users, limiterVars, tasks>>
      /\ ( /\ call.op = "catch"
           /\ call.kind = "reminder"
           /\ last = NoObs
           /\ last'.handler = "gatekeeper"
           /\ InMainGroup(last')
           /\ last'.ev.from = call.user
           /\ ~last'.admin
           /\ HasUser(users, call.user)
           /\ ~users[call.user].introduced
           /\ now - call.at < REMINDER_COOLDOWN_MS ) =>
           /\ last'.deleted
           /\ last'.replies = << >>
      /\ ( /\ call.op = "catch"
           /\ call.kind = "welcome"
           /\ last = NoObs
           /\ last'.handler = "welcome"
           /\ last'.ev.chat = call.chat
           /\ now - call.at < WELCOME_COOLDOWN_MS ) =>
           last'.replies = << >> ]_vars

C40_Witness ==
  /\ call.op = "catch"
  /\ call.kind = "reminder"
  /\ last.handler = "gatekeeper"
  /\ last.ev.from = call.user
  /\ last.deleted
  /\ last.limited
  /\ last.replies = << >>
  /\ last.at = call.at + REMINDER_COOLDOWN_MS - 1

(* ---------------- /setgroup and /setintro in flight together ---------- *)
(* Two users send the setup commands in two further chats while earlier    *)
(* commands wait for getChatMember; the main group and the intro channel   *)
(* start configured by earlier commands.                                   *)
SpecSetupRace ==
  InitCommands /\ [][ \/ /\ last = NoObs
                         /\ \E ev \in Commands(SetupCommands, {OTHER_CHAT, INTRO_CHANNEL},
                                               UserIds, ArgTargets({})) : Command(ev)
                      \/ FlowSetupResume
                      \/ Observed ]_vars

(* C33: a /setgroup or /setintro that replaces a configured id is applied  *)
(* only for a sender verified as admin of the main group that is           *)
(* configured at the moment of the write                                   *)
C33_ReassignmentCheckedAtWrite ==
  [][ ( /\ last = NoObs
        /\ last'.handler \in SetupCommands
        /\ last'.applied
        /\ IF last'.handler = "setgroup"
             THEN mainGroupId # Null /\ mainGroupId' # mainGroupId
             ELSE introChannelId # Null /\ introChannelId' # introChannelId ) =>
        /\ mainGroupId # Null
        /\ adminCacheHit(_cache', IdOf(mainGroupId), last'.ev.from, now)
        /\ isAdminValue(_cache', IdOf(mainGroupId), last'.ev.from) ]_vars

====
